---- MODULE Spec2Model ----
(***************************************************************************)
(* Scoring and interaction-detection engine of the holistic health app:    *)
(* BiomarkerAnalyticsEngine (app/analytics_engine.py) and                  *)
(* KnowledgeBaseService (app/knowledge_base.py).                           *)
(*                                                                         *)
(* Units.  Biomarker values and range bounds are integers in tenths of the *)
(* unit (hemoglobin 13.5 g/dL is 135).  deviation_percent is an integer in *)
(* tenths of a percent (16.7 is 167).  Category weights are integers in    *)
(* hundredths (1.3 is 130).  Quantities the code holds in binary floating  *)
(* point are computed here as exact rationals num/den; where the code      *)
(* rounds such a quantity, the sign of the floating-point error it carries *)
(* (FloatErr) decides an exact tie, and nothing else.                      *)
(*                                                                         *)
(* Strings the code transforms (the gender string) are sequences of        *)
(* one-character strings.  A Python exception is an outcome record          *)
(* [err |-> <exception name>]; a normal return is [err |-> "none", val].   *)
(***************************************************************************)
EXTENDS Integers, Sequences, FiniteSets, TLC

VARIABLES
    gender,           \* user_profile["gender"], a sequence of characters
    biomarkers,       \* the input map of analyze(), in insertion order
    classifications,  \* outcome of classify_all
    result,           \* outcome of _get_risk_score
    kb,               \* KnowledgeBaseService fields
    file,             \* knowledge_base/interaction_modifiers.json on disk
    classified,       \* the last classify_biomarker call and its outcome
    pc,               \* position of the request being served
    reload_pc,        \* position of a thread inside reload()
    reader_pc,        \* position of a thread inside get_interaction_context()
    observed,         \* what that reader has read from the catalog so far
    detected,         \* outcome of detect_interactions
    triggers,         \* outcome of detect_cluster_triggers
    analysis,         \* outcome of analyze
    served,           \* analyses this engine has finished
    groq_client,      \* ChatEngine.groq_client is set (GROQ_API_KEY configured)
    sessions,         \* ChatEngine.sessions: session id to ChatSession fields
    groq_messages,    \* messages of the last completions.create call of chat()
    response          \* what the last chat() call returned

vars == <<gender, biomarkers, classifications, result, kb, file, classified,
          pc, reload_pc, reader_pc, observed, detected, triggers, analysis,
          served, groq_client, sessions, groq_messages, response>>

None == [none |-> TRUE]

Ok(v) == [err |-> "none", val |-> v]

Raise(e) == [err |-> e]

IsOk(o) == o.err = "none"

Abs(x) == IF x < 0 THEN -x ELSE x

Min(a, b) == IF a <= b THEN a ELSE b

Max(a, b) == IF a >= b THEN a ELSE b

(***************************************************************************)
(* Reference tables                                                        *)
(***************************************************************************)

BiomarkerKeys ==
    << "hemoglobin", "rbc_count", "ferritin", "vitamin_b12", "vitamin_d",
       "fasting_glucose", "hba1c", "total_cholesterol", "ldl", "hdl",
       "triglycerides", "hs_crp", "tsh", "sgpt_alt" >>

Range(mlo, mhi, flo, fhi, cat) ==
    [male |-> <<mlo, mhi>>, female |-> <<flo, fhi>>, category |-> cat]

BIOMARKER_RANGES ==
    ( "hemoglobin"        :> Range(135, 175, 120, 155, "blood_health") ) @@
    ( "rbc_count"         :> Range(45, 55, 40, 50, "blood_health") ) @@
    ( "ferritin"          :> Range(200, 2500, 100, 1200, "deficiencies") ) @@
    ( "vitamin_b12"       :> Range(2000, 9000, 2000, 9000, "deficiencies") ) @@
    ( "vitamin_d"         :> Range(300, 1000, 300, 1000, "deficiencies") ) @@
    ( "fasting_glucose"   :> Range(700, 1000, 700, 1000, "metabolic") ) @@
    ( "hba1c"             :> Range(40, 56, 40, 56, "metabolic") ) @@
    ( "total_cholesterol" :> Range(1250, 2000, 1250, 2000, "lipids") ) @@
    ( "ldl"               :> Range(0, 1000, 0, 1000, "lipids") ) @@
    ( "hdl"               :> Range(400, 1000, 500, 1000, "lipids") ) @@
    ( "triglycerides"     :> Range(0, 1500, 0, 1500, "lipids") ) @@
    ( "hs_crp"            :> Range(0, 10, 0, 10, "inflammation") ) @@
    ( "tsh"               :> Range(4, 40, 4, 40, "hormonal") ) @@
    ( "sgpt_alt"          :> Range(70, 560, 70, 450, "liver") )

CategoryKeys ==
    << "metabolic", "lipids", "deficiencies", "inflammation", "hormonal",
       "blood_health", "liver" >>

RISK_CATEGORIES ==
    ( "metabolic"    :> [weight |-> 130] ) @@
    ( "lipids"       :> [weight |-> 120] ) @@
    ( "deficiencies" :> [weight |-> 100] ) @@
    ( "inflammation" :> [weight |-> 115] ) @@
    ( "hormonal"     :> [weight |-> 110] ) @@
    ( "blood_health" :> [weight |-> 100] ) @@
    ( "liver"        :> [weight |-> 100] )

(***************************************************************************)
(* Floating point and rounding                                             *)
(***************************************************************************)

\* Sign of the error a float carries against the exact value it stands for.
FloatErr == {-1, 0, 1}

\* Python round(): the nearest integer to num/den (num >= 0, den > 0), an
\* exact tie going to the even neighbour; a float operand that carries an
\* error lies strictly on one side of the tie and goes to that side.
PyRound(num, den, fe) ==
    LET q == num \div den
        r == num % den
    IN  IF 2 * r < den THEN q
        ELSE IF 2 * r > den THEN q + 1
        ELSE IF fe < 0 THEN q
        ELSE IF fe > 0 THEN q + 1
        ELSE IF q % 2 = 0 THEN q ELSE q + 1

(***************************************************************************)
(* str.lower()                                                             *)
(***************************************************************************)

UpperCase == << "A", "B", "C", "D", "E", "F", "G", "H", "I", "J", "K", "L", "M",
                "N", "O", "P", "Q", "R", "S", "T", "U", "V", "W", "X", "Y", "Z" >>

LowerCase == << "a", "b", "c", "d", "e", "f", "g", "h", "i", "j", "k", "l", "m",
                "n", "o", "p", "q", "r", "s", "t", "u", "v", "w", "x", "y", "z" >>

LowerChar(c) ==
    IF \E i \in DOMAIN UpperCase : UpperCase[i] = c
    THEN LowerCase[CHOOSE i \in DOMAIN UpperCase : UpperCase[i] = c]
    ELSE c

Lower(s) == [i \in DOMAIN s |-> LowerChar(s[i])]

(***************************************************************************)
(* BiomarkerAnalyticsEngine.classify_biomarker                             *)
(***************************************************************************)

GenderKeyCaseSensitive(g) ==
    IF g \in { <<"m", "a", "l", "e">>, <<"m">> } THEN "male" ELSE "female"

\* gender_key = "male" if gender.lower() in ("male", "m") else "female"
GenderKey(g) ==
    IF Lower(g) \in { <<"m", "a", "l", "e">>, <<"m">> } THEN "male" ELSE "female"

DeviationTruncated(boundary, value, fe) ==
    (Abs(boundary - value) * 1000) \div boundary

\* round(((low - value) / low) * 100, 1) for a low reading and
\* round(((value - high) / high) * 100, 1) for a high one, in tenths.
Deviation(boundary, value, fe) ==
    PyRound(Abs(boundary - value) * 1000, boundary, fe)

\* The dict the code returns for a key without reference range has the
\* fields status and message only.
UnknownClassification(key) ==
    [status |-> "unknown", message |-> key]

ClassifyBiomarker(key, value, g, fe) ==
    IF key \notin DOMAIN BIOMARKER_RANGES
    THEN Ok(UnknownClassification(key))
    ELSE
      LET ref  == BIOMARKER_RANGES[key]
          low  == ref[GenderKey(g)][1]
          high == ref[GenderKey(g)][2]
          Rec(status, deviation) ==
              [ key               |-> key,
                value             |-> value,
                status            |-> status,
                normal_range      |-> <<low, high>>,
                deviation_percent |-> deviation,
                category          |-> ref.category ]
      IN  IF value < low
          THEN IF low = 0
               THEN Raise("ZeroDivisionError")
               ELSE Ok(Rec("low", Deviation(low, value, fe)))
          ELSE IF value > high
               THEN IF high = 0
                    THEN Raise("ZeroDivisionError")
                    ELSE Ok(Rec("high", Deviation(high, value, fe)))
               ELSE Ok(Rec("normal", 0))

\* Every outcome classify_biomarker can have on one call.
ClassifyOutcomes(key, value, g) ==
    { ClassifyBiomarker(key, value, g, fe) : fe \in FloatErr }

(***************************************************************************)
(* Python dict access                                                      *)
(***************************************************************************)

Has(d, f) == f \in DOMAIN d

\* d.get(f, default)
Get(d, f, default) == IF Has(d, f) THEN d[f] ELSE default

(***************************************************************************)
(* KnowledgeBaseService.detect_interactions                                *)
(***************************************************************************)

\* The lookup without its default: a key without entry has no status.
StatusLookupNoDefault(cls, key) ==
    LET hits == { i \in DOMAIN cls : Get(cls[i], "key", "") = key }
    IN  IF key = "" \/ hits = {}
        THEN "absent"
        ELSE LET last == CHOOSE i \in hits : \A j \in hits : j <= i
             IN  Get(cls[last], "status", "normal")

\* status_map[key] with default "normal": the status of the last
\* classification that carries a non-empty key equal to `key`.
StatusLookup(cls, key) ==
    LET hits == { i \in DOMAIN cls : Get(cls[i], "key", "") = key }
    IN  IF key = "" \/ hits = {}
        THEN "normal"
        ELSE LET last == CHOOSE i \in hits : \A j \in hits : j <= i
             IN  Get(cls[last], "status", "normal")

\* One condition against the status map: cond["biomarker"] and
\* cond["status"] raise KeyError when the field is missing.
CondOutcome(cls, cond) ==
    IF ~Has(cond, "biomarker") \/ ~Has(cond, "status")
    THEN "KeyError"
    ELSE IF StatusLookup(cls, cond.biomarker) = cond.status
         THEN "match"
         ELSE "nomatch"

\* The AND loop with its verdict taken from the last condition alone.
RECURSIVE AndOutcomeLast(_, _, _)
AndOutcomeLast(cls, conds, i) ==
    IF i > Len(conds) THEN "match"
    ELSE IF i < Len(conds) /\ CondOutcome(cls, conds[i]) /= "KeyError"
         THEN AndOutcomeLast(cls, conds, i + 1)
         ELSE CondOutcome(cls, conds[i])

\* The AND loop from condition i on: all_match, a break at the first
\* mismatch, KeyError at a malformed condition met before it.
RECURSIVE AndOutcome(_, _, _)
AndOutcome(cls, conds, i) ==
    IF i > Len(conds) THEN "match"
    ELSE LET o == CondOutcome(cls, conds[i])
         IN  IF o = "match" THEN AndOutcome(cls, conds, i + 1) ELSE o

\* The OR loop that looks at its first condition only.
OrOutcomeFirst(cls, conds, i) ==
    IF i > Len(conds) THEN "nomatch" ELSE CondOutcome(cls, conds[i])

\* The OR loop from condition i on: append and break at the first match.
RECURSIVE OrOutcome(_, _, _)
OrOutcome(cls, conds, i) ==
    IF i > Len(conds) THEN "nomatch"
    ELSE LET o == CondOutcome(cls, conds[i])
         IN  IF o = "nomatch" THEN OrOutcome(cls, conds, i + 1) ELSE o

ModifierOutcome(cls, modifier) ==
    LET conditions == Get(modifier, "conditions", <<>>)
        operator   == Get(modifier, "operator", "AND")
    IN  IF operator = "AND" THEN AndOutcome(cls, conditions, 1)
        ELSE IF operator = "OR" THEN OrOutcome(cls, conditions, 1)
        ELSE "nomatch"

PriorityKey(x) == Get(x, "priority", 99)

\* A sort that puts x before the elements of equal key.
RECURSIVE InsertBeforeEqual(_, _)
InsertBeforeEqual(sorted, x) ==
    IF sorted = <<>> THEN <<x>>
    ELSE LET last == sorted[Len(sorted)]
         IN  IF Get(last, "priority", 99) < Get(x, "priority", 99)
             THEN Append(sorted, x)
             ELSE Append(InsertBeforeEqual(SubSeq(sorted, 1, Len(sorted) - 1), x), last)

\* list.sort(key=priority), which is stable: x goes after every element
\* whose key is not larger.
RECURSIVE InsertByPriority(_, _)
InsertByPriority(sorted, x) ==
    IF sorted = <<>> THEN <<x>>
    ELSE LET last == sorted[Len(sorted)]
         IN  IF PriorityKey(last) <= PriorityKey(x)
             THEN Append(sorted, x)
             ELSE Append(InsertByPriority(SubSeq(sorted, 1, Len(sorted) - 1), x), last)

RECURSIVE SortByPriority(_)
SortByPriority(s) ==
    IF s = <<>> THEN <<>>
    ELSE InsertByPriority(SortByPriority(SubSeq(s, 1, Len(s) - 1)), s[Len(s)])

RECURSIVE Triggered(_, _, _)
Triggered(cls, modifiers, i) ==
    IF i > Len(modifiers) THEN <<>>
    ELSE IF ModifierOutcome(cls, modifiers[i]) = "match"
         THEN <<modifiers[i]>> \o Triggered(cls, modifiers, i + 1)
         ELSE Triggered(cls, modifiers, i + 1)

DetectInteractions(modifiers, cls) ==
    IF modifiers = <<>> \/ cls = <<>>
    THEN Ok(<<>>)
    ELSE IF \E i \in DOMAIN modifiers : ModifierOutcome(cls, modifiers[i]) = "KeyError"
         THEN Raise("KeyError")
         ELSE Ok(SortByPriority(Triggered(cls, modifiers, 1)))

(***************************************************************************)
(* KnowledgeBaseService.detect_cluster_triggers and _pattern_matches       *)
(***************************************************************************)

\* A pattern text is a sequence of one-character strings.
Whitespace == { " ", "\t" }

RECURSIVE LStrip(_)
LStrip(s) ==
    IF s /= <<>> /\ s[1] \in Whitespace THEN LStrip(Tail(s)) ELSE s

RECURSIVE RStrip(_)
RStrip(s) ==
    IF s /= <<>> /\ s[Len(s)] \in Whitespace
    THEN RStrip(SubSeq(s, 1, Len(s) - 1))
    ELSE s

\* str.strip()
Strip(s) == RStrip(LStrip(s))

\* text.split("+"), `cur` being the part read so far: one part more than
\* there are "+" characters.
RECURSIVE SplitPlus(_, _)
SplitPlus(s, cur) ==
    IF s = <<>> THEN << cur >>
    ELSE IF s[1] = "+" THEN << cur >> \o SplitPlus(Tail(s), <<>>)
         ELSE SplitPlus(Tail(s), Append(cur, s[1]))

\* parts = [p.strip() for p in pattern_text.split("+")]
Parts(pattern_text) ==
    LET raw == SplitPlus(pattern_text, <<>>)
    IN  [i \in DOMAIN raw |-> Strip(raw[i])]

\* str.startswith(prefix)
StartsWith(s, prefix) ==
    Len(s) >= Len(prefix) /\ SubSeq(s, 1, Len(prefix)) = prefix

\* s[n:]
From(s, n) == SubSeq(s, n + 1, Len(s))

\* The alias table of _pattern_matches.
name_to_key ==
    ( << "h", "b" >>                                         :> "hemoglobin" ) @@
    ( << "h", "e", "m", "o", "g", "l", "o", "b", "i", "n" >> :> "hemoglobin" ) @@
    ( << "f", "e", "r", "r", "i", "t", "i", "n" >>           :> "ferritin" ) @@
    ( << "b", "1", "2" >>                                    :> "vitamin_b12" ) @@
    ( << "d" >>                                              :> "vitamin_d" ) @@
    ( << "r", "b", "c" >>                                    :> "rbc_count" ) @@
    ( << "g", "l", "u", "c", "o", "s", "e" >>                :> "fasting_glucose" ) @@
    ( << "h", "b", "a", "1", "c" >>                          :> "hba1c" ) @@
    ( << "t", "c" >>                                         :> "total_cholesterol" ) @@
    ( << "l", "d", "l" >>                                    :> "ldl" ) @@
    ( << "h", "d", "l" >>                                    :> "hdl" ) @@
    ( << "t", "g" >>                                         :> "triglycerides" ) @@
    ( << "c", "r", "p" >>                                    :> "hs_crp" ) @@
    ( << "c", "p", "r" >>                                    :> "hs_crp" ) @@
    ( << "t", "s", "h" >>                                    :> "tsh" ) @@
    ( << "a", "l", "t" >>                                    :> "sgpt_alt" )

LowPrefix == << "l", "o", "w", " " >>

HighPrefix == << "h", "i", "g", "h", " " >>

NormalPrefix == << "n", "o", "r", "m", "a", "l", " " >>

\* The status keyword and marker name of one part; a part without keyword
\* is not checked (continue).
Clause(part) ==
    LET part_lower == Lower(Strip(part))
    IN  IF StartsWith(part_lower, LowPrefix)
        THEN [checked |-> TRUE, required_status |-> "low",
              marker_name |-> Strip(From(part_lower, 4))]
        ELSE IF StartsWith(part_lower, HighPrefix)
        THEN [checked |-> TRUE, required_status |-> "high",
              marker_name |-> Strip(From(part_lower, 5))]
        ELSE IF StartsWith(part_lower, NormalPrefix)
        THEN [checked |-> TRUE, required_status |-> "normal",
              marker_name |-> Strip(From(part_lower, 7))]
        ELSE [checked |-> FALSE]

\* The loop that fails a part whose marker name is not in the alias table.
RECURSIVE PartsMatchStrict(_, _, _)
PartsMatchStrict(parts, cls, i) ==
    IF i > Len(parts) THEN TRUE
    ELSE LET c == Clause(parts[i])
         IN  IF ~c.checked
             THEN PartsMatchStrict(parts, cls, i + 1)
             ELSE IF c.marker_name \notin DOMAIN name_to_key
             THEN FALSE
             ELSE IF StatusLookup(cls, name_to_key[c.marker_name]) /= c.required_status
             THEN FALSE
             ELSE PartsMatchStrict(parts, cls, i + 1)

\* The loop of _pattern_matches from part i on: a part without keyword or
\* with a name outside the alias table is skipped, the first checked part
\* of another status returns False, the end of the loop returns True.
RECURSIVE PartsMatch(_, _, _)
PartsMatch(parts, cls, i) ==
    IF i > Len(parts) THEN TRUE
    ELSE LET c == Clause(parts[i])
         IN  IF ~c.checked
             THEN PartsMatch(parts, cls, i + 1)
             ELSE IF c.marker_name \notin DOMAIN name_to_key
             THEN PartsMatch(parts, cls, i + 1)
             ELSE IF StatusLookup(cls, name_to_key[c.marker_name]) /= c.required_status
             THEN FALSE
             ELSE PartsMatch(parts, cls, i + 1)

\* A matcher that wants at least one part checked against the status map.
PatternMatchesChecked(pattern_text, cls) ==
    /\ PartsMatch(Parts(pattern_text), cls, 1)
    /\ \E i \in DOMAIN Parts(pattern_text) :
          /\ Clause(Parts(pattern_text)[i]).checked
          /\ Clause(Parts(pattern_text)[i]).marker_name \in DOMAIN name_to_key

PatternMatches(pattern_text, cls) == PartsMatch(Parts(pattern_text), cls, 1)

\* The dict appended for a matched pattern tp of the cluster item ci.
DetectedEntry(ci, tp) ==
    [ cluster       |-> ci.cluster,
      cluster_label |-> Get(ci, "description", ci.cluster),
      pattern       |-> Get(tp, "pattern", <<>>),
      diagnosis     |-> Get(tp, "diagnosis", ""),
      priority      |-> Get(tp, "priority", 3) ]

\* The matched patterns of one cluster item, from pattern j on.
RECURSIVE MatchedOf(_, _, _)
MatchedOf(ci, cls, j) ==
    LET tps == Get(ci, "trigger_patterns", <<>>)
    IN  IF j > Len(tps) THEN <<>>
        ELSE IF PatternMatches(Get(tps[j], "pattern", <<>>), cls)
             THEN << DetectedEntry(ci, tps[j]) >> \o MatchedOf(ci, cls, j + 1)
             ELSE MatchedOf(ci, cls, j + 1)

\* The nested loop over self.cluster_triggers.items(), from item i on.
RECURSIVE MatchedFrom(_, _, _)
MatchedFrom(cluster_triggers, cls, i) ==
    IF i > Len(cluster_triggers) THEN <<>>
    ELSE MatchedOf(cluster_triggers[i], cls, 1)
             \o MatchedFrom(cluster_triggers, cls, i + 1)

DetectClusterTriggers(cluster_triggers, cls) ==
    IF cluster_triggers = <<>> \/ cls = <<>>
    THEN Ok(<<>>)
    ELSE Ok(SortByPriority(MatchedFrom(cluster_triggers, cls, 1)))

(***************************************************************************)
(* BiomarkerAnalyticsEngine._get_risk_score                                *)
(***************************************************************************)

RECURSIVE SumSeq(_)
SumSeq(s) == IF s = <<>> THEN 0 ELSE s[1] + SumSeq(Tail(s))

IsAbnormalNotHigh(c) == c.status /= "high"

IsAbnormal(c) == c.status /= "normal"

\* [c for c in classifications if c.get("category") == cat_key]
CatMarkers(cls, cat) ==
    SelectSeq(cls, LAMBDA c : Has(c, "category") /\ c.category = cat)

CatAbnormal(cls, cat) == SelectSeq(CatMarkers(cls, cat), IsAbnormal)

DeviationSum(markers) ==
    SumSeq([i \in DOMAIN markers |-> markers[i].deviation_percent])

\* risk_raw with the severity factor left uncapped.
RiskRawUncapped(k, n, s, w) ==
    IF k = 0 THEN <<0, 1>>
    ELSE <<(1500 * k * k + 2 * s * n) * w, 2500 * k * n>>

\* risk_raw = (ratio * 60 + severity_factor * 40) * weight as the exact
\* rational <<num, den>>, for k abnormal markers among n whose deviations
\* (tenths of a percent) sum to s, under weight w (hundredths):
\* ratio = k / n, avg_deviation = s / (10 k), severity = min(avg / 50, 1).
RiskRaw(k, n, s, w) ==
    IF k = 0 THEN <<0, 1>>
    ELSE IF s >= 500 * k
         THEN <<(60 * k + 40 * n) * w, 100 * n>>
         ELSE <<(1500 * k * k + 2 * s * n) * w, 2500 * k * n>>

IsTie(q) == 2 * (q[1] % q[2]) = q[2]

CatRiskRaw(cls, cat) ==
    RiskRaw(Len(CatAbnormal(cls, cat)), Len(CatMarkers(cls, cat)),
            DeviationSum(CatAbnormal(cls, cat)), RISK_CATEGORIES[cat].weight)

RECURSIVE ClusterPenaltySigned(_, _)
ClusterPenaltySigned(triggered, cat) ==
    IF triggered = <<>> THEN 0
    ELSE ( IF Get(triggered[1], "affected_cluster", "") = cat
           THEN Get(triggered[1], "score_modifier", 0)
           ELSE 0 )
         + ClusterPenaltySigned(Tail(triggered), cat)

\* The penalty of all triggered rules, whatever their cluster
\* (total_interaction_penalty).
RECURSIVE ClusterPenaltyTotal(_, _)
ClusterPenaltyTotal(triggered, cat) ==
    IF triggered = <<>> THEN 0
    ELSE Abs(Get(triggered[1], "score_modifier", 0))
           + ClusterPenaltyTotal(Tail(triggered), cat)

\* abs(ix.get("score_modifier", 0)) summed over the triggered rules whose
\* ix.get("affected_cluster", "") is the category.
RECURSIVE ClusterPenalty(_, _)
ClusterPenalty(triggered, cat) ==
    IF triggered = <<>> THEN 0
    ELSE ( IF Get(triggered[1], "affected_cluster", "") = cat
           THEN Abs(Get(triggered[1], "score_modifier", 0))
           ELSE 0 )
         + ClusterPenalty(Tail(triggered), cat)

ClampedRiskBaseOnly(base, penalty) == Min(100, base)

\* risk_score = min(100, risk_score + cluster_interaction_penalty)
ClampedRisk(base, penalty) == Min(100, base + penalty)

\* The labels with every threshold excluded from its band.
StatusLabelStrict(health_score) ==
    IF health_score > 90 THEN "Healthy"
    ELSE IF health_score > 70 THEN "Mild Concern"
    ELSE IF health_score > 40 THEN "Needs Attention"
    ELSE "High Risk"

StatusLabel(health_score) ==
    IF health_score >= 90 THEN "Healthy"
    ELSE IF health_score >= 70 THEN "Mild Concern"
    ELSE IF health_score >= 40 THEN "Needs Attention"
    ELSE "High Risk"

\* The levels with every threshold excluded from its band.
LevelStrict(health_score) ==
    IF health_score > 85 THEN "excellent"
    ELSE IF health_score > 70 THEN "good"
    ELSE IF health_score > 50 THEN "moderate"
    ELSE IF health_score > 30 THEN "needs_attention"
    ELSE "high_risk"

Level(health_score) ==
    IF health_score >= 85 THEN "excellent"
    ELSE IF health_score >= 70 THEN "good"
    ELSE IF health_score >= 50 THEN "moderate"
    ELSE IF health_score >= 30 THEN "needs_attention"
    ELSE "high_risk"

\* One pass of the category loop.  risk_score is the loop's local variable
\* of that name after the penalty; the result dict carries health_score.
CategoryScore(cls, triggered, cat, fe) ==
    LET markers  == CatMarkers(cls, cat)
        abnormal == CatAbnormal(cls, cat)
        raw      == CatRiskRaw(cls, cat)
        base     == Min(100, PyRound(raw[1], raw[2], fe))
        risk     == ClampedRisk(base, ClusterPenalty(triggered, cat))
        health   == Max(0, 100 - risk)
        mine     == SelectSeq(triggered,
                              LAMBDA ix : Has(ix, "affected_cluster")
                                            /\ ix.affected_cluster = cat)
    IN  [ health_score          |-> health,
          risk_score            |-> risk,
          base_risk             |-> base,
          status_label          |-> StatusLabel(health),
          total_markers         |-> Len(markers),
          abnormal_markers      |-> Len(abnormal),
          markers               |-> [i \in DOMAIN markers |->
                                       [ name      |-> markers[i].key,
                                         status    |-> markers[i].status,
                                         deviation |-> markers[i].deviation_percent ]],
          interaction_modifiers |-> [i \in DOMAIN mine |->
                                       [ name     |-> mine[i].name,
                                         modifier |-> mine[i].score_modifier ]] ]

ScoredCategories(cls) ==
    { CategoryKeys[i] : i \in { j \in DOMAIN CategoryKeys :
                                  CatMarkers(cls, CategoryKeys[j]) /= <<>> } }

RECURSIVE SumOver(_, _)
SumOver(S, f) ==
    IF S = {} THEN 0
    ELSE LET x == CHOOSE y \in S : TRUE IN f[x] + SumOver(S \ {x}, f)

\* A weight in hundredths is a binary float without error when it is a
\* multiple of 1/4.
WeightExact(w) == w % 25 = 0

\* What the aggregation gives without a scored category: overall_risk 0.
EmptyResultAggregated ==
    [ score |-> 100, level |-> "excellent", summary |-> "No data",
      category_scores |-> <<>>, triggered_interactions |-> <<>> ]

EmptyResult ==
    [ score |-> 0, level |-> "unknown", summary |-> "No data",
      category_scores |-> <<>>, triggered_interactions |-> <<>> ]

TriggeredEntry(ix) ==
    [ id               |-> Get(ix, "id", ""),
      name             |-> ix.name,
      description      |-> ix.description,
      score_modifier   |-> ix.score_modifier,
      affected_cluster |-> Get(ix, "affected_cluster", ""),
      priority         |-> Get(ix, "priority", 3) ]

\* health_score = max(0, round(100 - overall_risk)) for overall_risk = num/den
\* carrying an error of sign fo.  The subtraction is exact unless its result
\* lies above 64, in a binade coarser than that of overall_risk; there it
\* may absorb the error and hand round() the exact tie.
OverallHealth(num, den, fo, absorbed) ==
    Max(0, PyRound(100 * den - num, den,
                   IF absorbed /\ 100 * den - num > 64 * den THEN 0 ELSE -fo))

\* The aggregation with each category weighted by its weight alone.
AggregatePerCategory(cls, triggered, fc) ==
    LET high_dev == SelectSeq(SelectSeq(cls, IsAbnormal),
                              LAMBDA c : c.deviation_percent > 300)
        scored   == ScoredCategories(cls)
        cats     == [c \in scored |-> CategoryScore(cls, triggered, c, fc[c])]
        cat_w    == [c \in scored |-> RISK_CATEGORIES[c].weight]
        twp      == SumOver(scored, [c \in scored |-> cats[c].risk_score * cat_w[c]])
        tw       == SumOver(scored, cat_w)
    IN  [ cats  |-> cats,
          num   |-> IF tw > 0 THEN Min(100 * tw, twp + 2 * Len(high_dev) * tw) ELSE 0,
          den   |-> IF tw > 0 THEN tw ELSE 1,
          exact |-> \A c \in scored : WeightExact(RISK_CATEGORIES[c].weight) ]

\* The category loop and the overall aggregation up to overall_risk, which
\* is num/den: total_weighted_penalty / total_weight + 2 * len(high_deviation),
\* at most 100; 0 without a scored category.  fc gives each category's
\* float error; exact says that overall_risk carries none.
Aggregate(cls, triggered, fc) ==
    LET high_dev == SelectSeq(SelectSeq(cls, IsAbnormal),
                              LAMBDA c : c.deviation_percent > 300)
        scored   == ScoredCategories(cls)
        cats     == [c \in scored |-> CategoryScore(cls, triggered, c, fc[c])]
        cat_w    == [c \in scored |-> RISK_CATEGORIES[c].weight * Len(CatMarkers(cls, c))]
        twp      == SumOver(scored, [c \in scored |-> cats[c].risk_score * cat_w[c]])
        tw       == SumOver(scored, cat_w)
    IN  [ cats  |-> cats,
          num   |-> IF tw > 0 THEN Min(100 * tw, twp + 2 * Len(high_dev) * tw) ELSE 0,
          den   |-> IF tw > 0 THEN tw ELSE 1,
          exact |-> \A c \in scored : WeightExact(RISK_CATEGORIES[c].weight) ]

\* fl = [cat |-> error sign of each category's risk_raw, overall |-> error
\* sign of overall_risk, absorbed |-> whether 100 - overall_risk loses it].
GetRiskScore(cls, modifiers, fl) ==
    IF cls = <<>> THEN Ok(EmptyResult)
    ELSE IF \E i \in DOMAIN cls :
              IsAbnormal(cls[i]) /\ ~Has(cls[i], "deviation_percent")
    THEN Raise("KeyError")
    ELSE
      LET det == DetectInteractions(modifiers, cls)
      IN  IF ~IsOk(det) THEN det
          ELSE IF \E i \in DOMAIN det.val :
                    ~Has(det.val[i], "name") \/ ~Has(det.val[i], "description")
                      \/ ~Has(det.val[i], "score_modifier")
          THEN Raise("KeyError")
          ELSE
            LET triggered == det.val
                agg       == Aggregate(cls, triggered, fl.cat)
                fo        == IF agg.exact THEN 0 ELSE fl.overall
                health    == OverallHealth(agg.num, agg.den, fo, fl.absorbed)
            IN  Ok([ score                  |-> health,
                     risk_score             |-> PyRound(agg.num, agg.den, fo),
                     level                  |-> Level(health),
                     total_markers          |-> Len(cls),
                     abnormal_markers       |-> Len(SelectSeq(cls, IsAbnormal)),
                     high_deviation_markers |->
                         Len(SelectSeq(SelectSeq(cls, IsAbnormal),
                                       LAMBDA c : c.deviation_percent > 300)),
                     category_scores        |-> agg.cats,
                     triggered_interactions |->
                         [i \in DOMAIN triggered |-> TriggeredEntry(triggered[i])] ])

CatSet == { CategoryKeys[i] : i \in DOMAIN CategoryKeys }

NoFloatErr == [cat |-> [c \in CatSet |-> 0], overall |-> 0, absorbed |-> FALSE]

\* The float errors that can change the outcome of a call that reaches the
\* category loop: an error matters only where the rounded quantity is an
\* exact tie.
FloatChoices(cls, triggered) ==
    LET ties == { c \in ScoredCategories(cls) : IsTie(CatRiskRaw(cls, c)) }
    IN  UNION {
          LET fc  == [c \in CatSet |-> IF c \in ties THEN g[c] ELSE 0]
              agg == Aggregate(cls, triggered, fc)
          IN  IF IsTie(<<agg.num, agg.den>>) /\ ~agg.exact
              THEN { [cat |-> fc, overall |-> fo, absorbed |-> ab] :
                       fo \in FloatErr, ab \in BOOLEAN }
              ELSE { [cat |-> fc, overall |-> 0, absorbed |-> FALSE] }
          : g \in [ties -> FloatErr] }

\* Every outcome _get_risk_score can have on one call.
RiskScoreOutcomes(cls, modifiers) ==
    IF ~IsOk(GetRiskScore(cls, modifiers, NoFloatErr)) \/ cls = <<>>
    THEN { GetRiskScore(cls, modifiers, NoFloatErr) }
    ELSE { GetRiskScore(cls, modifiers, fl) :
             fl \in FloatChoices(cls, DetectInteractions(modifiers, cls).val) }

(***************************************************************************)
(* BiomarkerAnalyticsEngine.classify_all                                   *)
(***************************************************************************)

\* Raw values of the input map: a number, None, or a string of characters.
Num(v) == [t |-> "num", v |-> v]

NoneValue == [t |-> "none"]

Str(s) == [t |-> "str", s |-> s]

Digits == << "0", "1", "2", "3", "4", "5", "6", "7", "8", "9" >>

IsDigit(c) == \E i \in DOMAIN Digits : Digits[i] = c

DigitValue(c) == (CHOOSE i \in DOMAIN Digits : Digits[i] = c) - 1

RECURSIVE DigitsValue(_)
DigitsValue(s) ==
    IF s = <<>> THEN 0
    ELSE 10 * DigitsValue(SubSeq(s, 1, Len(s) - 1)) + DigitValue(s[Len(s)])

\* float(s) for the decimal strings of the input grid: an optional sign,
\* digits, and at most one fractional digit after a point; the value in
\* tenths.  Any other string raises ValueError.
ParseUnsigned(s) ==
    IF s /= <<>> /\ \A i \in DOMAIN s : IsDigit(s[i])
    THEN Ok(10 * DigitsValue(s))
    ELSE IF Len(s) >= 3 /\ s[Len(s) - 1] = "." /\ IsDigit(s[Len(s)])
              /\ \A i \in 1..(Len(s) - 2) : IsDigit(s[i])
         THEN Ok(10 * DigitsValue(SubSeq(s, 1, Len(s) - 2)) + DigitValue(s[Len(s)]))
         ELSE Raise("ValueError")

ParseFloat(s) ==
    IF s /= <<>> /\ s[1] = "-"
    THEN LET u == ParseUnsigned(Tail(s))
         IN  IF IsOk(u) THEN Ok(-u.val) ELSE u
    ELSE ParseUnsigned(s)

\* float(value)
ToFloat(raw) ==
    IF raw.t = "num" THEN Ok(raw.v)
    ELSE IF raw.t = "str" THEN ParseFloat(raw.s)
    ELSE Raise("TypeError")

\* value is not None and value != ""
IsPresent(raw) == raw.t /= "none" /\ ~(raw.t = "str" /\ raw.s = <<>>)

\* The loop from entry i on, with the results appended so far: ValueError and
\* TypeError are swallowed, any other exception leaves classify_all.
RECURSIVE ClassifyAllFrom(_, _, _, _)
ClassifyAllFrom(bm, g, i, acc) ==
    IF i > Len(bm) THEN { Ok(acc) }
    ELSE IF ~IsPresent(bm[i][2]) \/ ~IsOk(ToFloat(bm[i][2]))
    THEN ClassifyAllFrom(bm, g, i + 1, acc)
    ELSE UNION { IF IsOk(o)
                 THEN ClassifyAllFrom(bm, g, i + 1, Append(acc, o.val))
                 ELSE { o } :
                 o \in ClassifyOutcomes(bm[i][1], ToFloat(bm[i][2]).val, g) }

\* Every outcome classify_all can have on one call.
ClassifyAllOutcomes(bm, g) == ClassifyAllFrom(bm, g, 1, <<>>)

(***************************************************************************)
(* KnowledgeBaseService: construction and reload                           *)
(***************************************************************************)

\* The files under KNOWLEDGE_BASE_DIR: f.refs stands for
\* biomarker_references.json and f.rules for interaction_modifiers.json;
\* a missing file is a missing field.
\* cluster_triggers, a dict in insertion order, is the sequence of its
\* items; the empty dict of priority_rules is EmptyDict.
EmptyDict == [empty |-> TRUE]

EmptyKb ==
    [ biomarkers            |-> <<>>,
      interaction_modifiers |-> <<>>,
      cluster_triggers      |-> <<>>,
      priority_rules        |-> EmptyDict ]

\* _load_data: self.biomarkers = json.load(f), or nothing without the file.
LoadData(k, f) ==
    IF ~Has(f, "refs") THEN k ELSE [k EXCEPT !.biomarkers = f.refs]

\* _load_interaction_modifiers: the three data.get(...) assignments, or
\* nothing without the file.  No field of a rule or pattern is inspected.
LoadInteractionModifiers(k, f) ==
    IF ~Has(f, "rules") THEN k
    ELSE [k EXCEPT !.interaction_modifiers = Get(f.rules, "interaction_modifiers", <<>>),
                   !.cluster_triggers      = Get(f.rules, "cluster_triggers", <<>>),
                   !.priority_rules        = Get(f.rules, "priority_rules", EmptyDict)]

\* KnowledgeBaseService.__init__
Construct(f) == LoadInteractionModifiers(LoadData(EmptyKb, f), f)

\* The rule catalog as one analysis reads it: interaction_modifiers in
\* detect_interactions, cluster_triggers in detect_cluster_triggers and
\* priority_rules in get_interaction_context.
Catalog(k) == << k.interaction_modifiers, k.cluster_triggers, k.priority_rules >>

(***************************************************************************)
(* KnowledgeBaseService.get_interaction_context and                        *)
(* BiomarkerAnalyticsEngine.analyze                                        *)
(***************************************************************************)

\* The fields of a triggered rule that the context lines index directly.
ContextFields ==
    { "name", "priority", "score_modifier", "description", "clinical_significance" }

\* get_interaction_context: the three sections of the text it joins, which
\* is "" when all three are empty.  A triggered rule without one of the
\* indexed fields raises KeyError.
GetInteractionContext(k, cls) ==
    LET interactions == DetectInteractions(k.interaction_modifiers, cls)
    IN  IF ~IsOk(interactions) THEN interactions
        ELSE IF \E i \in DOMAIN interactions.val :
                  \E f \in ContextFields : ~Has(interactions.val[i], f)
        THEN Raise("KeyError")
        ELSE LET found == DetectClusterTriggers(k.cluster_triggers, cls)
             IN  Ok([ modifiers |-> [i \in DOMAIN interactions.val |->
                                       interactions.val[i].name],
                      patterns  |-> [i \in DOMAIN found.val |-> found.val[i].pattern],
                      ordering  |-> IF k.priority_rules = EmptyDict THEN <<>>
                                    ELSE Get(k.priority_rules, "ordering_rules", <<>>) ])

\* The keys of risk_score that the user prompt of _generate_llm_analysis
\* indexes directly (lines 555 and 556).
PromptFields == { "level", "abnormal_markers", "total_markers" }

\* What _generate_llm_analysis returns once the prompt is built: the
\* fallback without client, the parsed reply, or one of the two error
\* dicts of its except clauses.
LlmOutcomes == { "unavailable", "parsed", "unparsed", "failed" }

\* analyze() from step 3 on, for the classifications and the risk_score of
\* steps 1 and 2: the context, then the prompt, then the reply.
AnalyzeTail(k, cls, risk_score) ==
    LET interaction_context == GetInteractionContext(k, cls)
    IN  IF ~IsOk(interaction_context) THEN { interaction_context }
        ELSE IF \E f \in PromptFields : ~Has(risk_score, f)
        THEN { Raise("KeyError") }
        ELSE { Ok([ classifications     |-> cls,
                    risk_score          |-> risk_score,
                    interaction_context |-> interaction_context.val,
                    analysis            |-> llm ]) : llm \in LlmOutcomes }

\* The catalog as an analysis that sorts the rule list itself leaves it.
KbAfterAnalysisSorted(k, cls) ==
    [k EXCEPT !.interaction_modifiers = SortByPriority(@)]

\* The fields of self.kb after an analysis of cls.  classify_all,
\* _get_risk_score, detect_interactions, detect_cluster_triggers and
\* get_interaction_context assign to no field of the service and to no
\* element of the catalog: `triggered` and `detected` are new lists, and
\* sort() reorders those.
KbAfterAnalysis(k, cls) == k

(***************************************************************************)
(* Inputs of the checks                                                    *)
(***************************************************************************)

Cond(b, st) == [biomarker |-> b, status |-> st]

Rule(id, op, conds, modifier, cluster, prio) ==
    [ id |-> id, name |-> id, description |-> id, operator |-> op,
      conditions |-> conds, score_modifier |-> modifier,
      affected_cluster |-> cluster, priority |-> prio,
      clinical_significance |-> id ]

RuleAtherogenic ==
    Rule("atherogenic", "AND", <<Cond("ldl", "high"), Cond("hdl", "low")>>,
         -15, "lipids", 1)

RuleLipidLoad ==
    Rule("lipid_load", "OR", <<Cond("ldl", "high"), Cond("triglycerides", "high")>>,
         -12, "lipids", 2)

RuleIsolatedLdl ==
    Rule("isolated_ldl", "AND", <<Cond("ldl", "high"), Cond("triglycerides", "normal")>>,
         -8, "lipids", 2)

RuleThyroid ==
    Rule("thyroid", "OR", <<Cond("tsh", "high"), Cond("tsh", "low")>>,
         -10, "hormonal", 3)

\* A rule whose cluster is not the category of its condition's marker.
RuleGlycemic ==
    Rule("glycemic", "AND", <<Cond("hba1c", "high")>>, -20, "lipids", 1)

\* Rules that a condition on a normal status can satisfy.
RuleBalanced ==
    Rule("balanced", "AND", <<Cond("ldl", "normal"), Cond("hdl", "normal")>>,
         -5, "lipids", 2)

RuleEuthyroid ==
    Rule("euthyroid", "OR", <<Cond("tsh", "normal"), Cond("ldl", "high")>>,
         -5, "hormonal", 2)

\* A rule without priority, on a cluster that is no risk category, and a
\* rule of a priority between 3 and 99.
RuleUnranked ==
    [ id |-> "unranked", name |-> "unranked", description |-> "unranked",
      operator |-> "OR", conditions |-> <<Cond("ldl", "high"), Cond("tsh", "high")>>,
      score_modifier |-> -7, affected_cluster |-> "cardiovascular",
      clinical_significance |-> "unranked" ]

RuleLate ==
    Rule("late", "AND", <<Cond("ldl", "high")>>, -4, "lipids", 5)

RuleNormoglycemic ==
    Rule("normoglycemic", "AND", <<Cond("hba1c", "normal")>>, -10, "lipids", 3)

RuleNoInflammation ==
    Rule("no_inflammation", "AND", <<Cond("hs_crp", "normal")>>, -5, "hormonal", 3)

\* Trigger patterns are written as lists of clauses, each a word and a
\* marker name; the catalog holds their text, "<word> <name>" joined by
\* " + ".  A clause without word is the marker name alone.
WordLow == << "L", "o", "w" >>

WordHigh == << "H", "i", "g", "h" >>

WordNormal == << "N", "O", "R", "M", "A", "L" >>

WordElevated == << "E", "l", "e", "v", "a", "t", "e", "d" >>

Cl(word, name) == [word |-> word, name |-> name]

ClauseText(c) ==
    IF c.word = <<>> THEN c.name ELSE c.word \o << " " >> \o c.name

RECURSIVE PatternText(_)
PatternText(clauses) ==
    IF clauses = <<>> THEN <<>>
    ELSE IF Len(clauses) = 1 THEN ClauseText(clauses[1])
         ELSE ClauseText(clauses[1]) \o << " ", "+", " " >> \o PatternText(Tail(clauses))

Pattern(clauses, diagnosis, prio) ==
    [pattern |-> PatternText(clauses), diagnosis |-> diagnosis, priority |-> prio]

ClausesAnemia ==
    << Cl(WordLow, << "H", "b" >>),
       Cl(WordLow, << "F", "e", "r", "r", "i", "t", "i", "n" >>) >>

ClausesLipid ==
    << Cl(WordHigh, << "L", "D", "L" >>), Cl(WordLow, << "H", "D", "L" >>) >>

ClausesEuthyroid == << Cl(WordNormal, << "t", "s", "h" >>) >>

\* "Zn" is not in the alias table.
ClausesLdlZinc ==
    << Cl(WordHigh, << "L", "d", "l" >>), Cl(WordLow, << "Z", "n" >>) >>

\* "CRP alone" is not in the alias table.
ClausesCrpAlone ==
    << Cl(WordHigh, << "C", "R", "P", " ", "a", "l", "o", "n", "e" >>) >>

\* No Low/High/Normal word.
ClausesNoWord ==
    << Cl(WordElevated, << "L", "D", "L" >>), Cl(<<>>, << "H", "D", "L" >>) >>

PatternAnemia == Pattern(ClausesAnemia, "Iron deficiency anemia", 1)

PatternLipid == Pattern(ClausesLipid, "Atherogenic dyslipidemia", 2)

PatternEuthyroid == Pattern(ClausesEuthyroid, "Euthyroid", 3)

PatternLdlZinc == Pattern(ClausesLdlZinc, "High LDL with low zinc", 2)

PatternCrpAlone == Pattern(ClausesCrpAlone, "Isolated inflammation", 1)

PatternNoWord == Pattern(ClausesNoWord, "Elevated LDL", 2)

\* The empty pattern text.
PatternEmpty == Pattern(<<>>, "Empty", 3)

\* An entry with neither pattern nor priority.
PatternBare == [diagnosis |-> "Bare"]

Triggers(patterns) ==
    << [cluster |-> "cluster", description |-> "cluster", trigger_patterns |-> patterns] >>

RulesFile(modifiers, patterns, ordering) ==
    [ interaction_modifiers |-> modifiers,
      cluster_triggers      |-> Triggers(patterns),
      priority_rules        |-> [ordering_rules |-> ordering] ]

Files(rules) == [refs |-> <<"Hemoglobin", "LDL">>, rules |-> rules]

\* The directory without interaction_modifiers.json.
FilesWithoutRules == [refs |-> <<"Hemoglobin", "LDL">>]

\* Catalog files of the scoring runs: no file, and files of well-formed rules.
ScoreFiles ==
    { FilesWithoutRules,
      Files(RulesFile(<<RuleAtherogenic, RuleLipidLoad>>, <<PatternLipid>>, <<"a">>)),
      Files(RulesFile(<<RuleIsolatedLdl, RuleThyroid>>, <<PatternAnemia>>, <<"a">>)),
      Files(RulesFile(<<RuleGlycemic, RuleUnranked, RuleLipidLoad, RuleLate, RuleThyroid>>,
                      <<>>, <<>>)),
      Files(RulesFile(<<RuleEuthyroid, RuleBalanced, RuleNormoglycemic,
                        RuleNoInflammation>>, <<>>, <<>>)) }

MaxEntries == 4

\* Keys of the input maps, in the order they are inserted: six catalog keys
\* of three categories and one key without reference range.
InputKeys ==
    << "hba1c", "total_cholesterol", "ldl", "hdl", "triglycerides", "tsh", "zinc" >>

\* Readings of a key against its male range lo..hi: below lo by a quarter
\* (by one tenth when lo is 0), mid-range, and above hi by one tenth, by a
\* fifth and by a half, and twice hi.
Below(key) ==
    BIOMARKER_RANGES[key].male[1] - Max(1, BIOMARKER_RANGES[key].male[1] \div 4)

Mid(key) == (BIOMARKER_RANGES[key].male[1] + BIOMARKER_RANGES[key].male[2]) \div 2

Tenth(key) == BIOMARKER_RANGES[key].male[2] + 1

Fifth(key) == BIOMARKER_RANGES[key].male[2] + BIOMARKER_RANGES[key].male[2] \div 5

Half(key) == BIOMARKER_RANGES[key].male[2] + BIOMARKER_RANGES[key].male[2] \div 2

Double(key) == 2 * BIOMARKER_RANGES[key].male[2]

InputValues(key) ==
    CASE key = "hba1c"             -> { Mid(key), Half(key) }
      [] key = "total_cholesterol" -> { Mid(key), Fifth(key) }
      [] key = "ldl"               -> { Below(key), Mid(key), Fifth(key), Half(key) }
      [] key = "hdl"               -> { Below(key), Mid(key) }
      [] key = "triglycerides"     -> { Mid(key), Tenth(key), Half(key), Double(key) }
      [] key = "tsh"               -> { Below(key), Mid(key), Half(key) }
      [] OTHER                     -> { 10 }

Male == << "m", "a", "l", "e" >>

Pending == [err |-> "pending"]

NoCall == [made |-> FALSE]

Idle == [at |-> "idle"]

(***************************************************************************)
(* Scoring a request: steps 1 and 2 of analyze()                           *)
(***************************************************************************)

KeyIndex(keys, k) == CHOOSE i \in DOMAIN keys : keys[i] = k

\* The caller puts one more entry into the biomarker map.
AddEntry(keys, k, v) ==
    /\ pc = "input"
    /\ Len(biomarkers) < MaxEntries
    /\ \A i \in DOMAIN biomarkers :
          KeyIndex(keys, biomarkers[i][1]) < KeyIndex(keys, k)
    /\ biomarkers' = Append(biomarkers, <<k, Num(v)>>)
    /\ UNCHANGED <<gender, classifications, result, kb, file, classified, pc,
            reload_pc, reader_pc, observed, detected, triggers, analysis,
            served, groq_client, sessions, groq_messages, response>>

\* classifications = self.classify_all(biomarkers, gender)
\* risk_score = self._get_risk_score(classifications)
\* An exception of the first call is the outcome of both.
ScoreRequest ==
    /\ pc = "input"
    /\ \E co \in ClassifyAllOutcomes(biomarkers, gender) :
          /\ classifications' = co
          /\ IF IsOk(co)
             THEN result' \in RiskScoreOutcomes(co.val, kb.interaction_modifiers)
             ELSE result' = co
    /\ pc' = "done"
    /\ UNCHANGED <<gender, biomarkers, kb, file, classified, reload_pc, reader_pc,
            observed, detected, triggers, analysis, served, groq_client,
            sessions, groq_messages, response>>

Init ==
    /\ gender = Male
    /\ biomarkers = <<>>
    /\ classifications = Pending
    /\ result = Pending
    /\ file \in ScoreFiles
    /\ kb = Construct(file)
    /\ classified = NoCall
    /\ pc = "input"
    /\ reload_pc = Idle
    /\ reader_pc = Idle
    /\ observed = <<>>
    /\ detected = Pending
    /\ triggers = Pending
    /\ analysis = Pending
    /\ served = 0
    /\ groq_client = FALSE
    /\ sessions = <<>>
    /\ groq_messages = <<>>
    /\ response = Pending

Next ==
    \/ \E i \in DOMAIN InputKeys : \E v \in InputValues(InputKeys[i]) :
          AddEntry(InputKeys, InputKeys[i], v)
    \/ ScoreRequest

Spec == Init /\ [][Next]_vars

(***************************************************************************)
(* Properties of the score composer (specification Spec)                   *)
(***************************************************************************)

Scored == pc = "done" /\ IsOk(classifications) /\ IsOk(result)

CategoryScores == result.val.category_scores

\* The classification set with entry i replaced by c.
Replaced(cls, i, c) == [cls EXCEPT ![i] = c]

\* The abnormal classifications, of deviation above 0, that the marker of
\* classification c can have instead.
AbnormalReadings(c) ==
    { o.val : o \in { x \in UNION { ClassifyOutcomes(c.key, v, gender) :
                                      v \in InputValues(c.key) } :
                        /\ IsOk(x)
                        /\ x.val.status \in {"low", "high"}
                        /\ x.val.deviation_percent > 0 } }

\* C1: with all other markers fixed, changing one marker of the scored set
\* from normal to abnormal (low or high, deviation above 0) never gives a
\* larger overall health score than the one returned for the set.
C1_Monotone ==
    Scored =>
      \A i \in DOMAIN classifications.val :
        classifications.val[i].status = "normal" =>
          \A c \in AbnormalReadings(classifications.val[i]) :
            \A r \in RiskScoreOutcomes(Replaced(classifications.val, i, c),
                                       kb.interaction_modifiers) :
              IsOk(r) => r.val.score <= result.val.score

\* C2: every category health_score of a result and its overall score lie
\* in 0..100, whatever the classification set and the rule catalog.
C2_ScoresInRange ==
    (pc = "done" /\ IsOk(result)) =>
      /\ result.val.score \in 0..100
      /\ \A c \in DOMAIN CategoryScores : CategoryScores[c].health_score \in 0..100

\* A category whose risk the clamp cut down to 100: the base risk and the
\* penalty of a triggered rule add up to more.
C2_Witness ==
    /\ Scored
    /\ \E c \in DOMAIN CategoryScores :
          /\ CategoryScores[c].health_score = 0
          /\ CategoryScores[c].interaction_modifiers /= <<>>
          /\ CategoryScores[c].base_risk
               + ClusterPenalty(kb.interaction_modifiers, c) > 100

HasUnknownKey == \E i \in DOMAIN biomarkers : biomarkers[i][1] \notin DOMAIN BIOMARKER_RANGES

KnownEntries == SelectSeq(biomarkers, LAMBDA e : e[1] \in DOMAIN BIOMARKER_RANGES)

Scores(r) ==
    [ score |-> r.score,
      cats  |-> [c \in DOMAIN r.category_scores |-> r.category_scores[c].health_score] ]

\* C3: an entry whose key is not in the reference catalog is classified
\* unknown, and scoring the input completes with the category scores and
\* the overall score of the input without that entry.
C3_UnknownExcluded ==
    (pc = "done" /\ HasUnknownKey /\ IsOk(classifications)) =>
      /\ \A i \in DOMAIN classifications.val :
            ~Has(classifications.val[i], "key") => classifications.val[i].status = "unknown"
      /\ IsOk(result)
      /\ \E co \in ClassifyAllOutcomes(KnownEntries, gender) :
            /\ IsOk(co)
            /\ \E r \in RiskScoreOutcomes(co.val, kb.interaction_modifiers) :
                  IsOk(r) /\ Scores(r.val) = Scores(result.val)

\* C4: in a result that reports a risk_score, the overall health score is
\* 100 minus it, each category's health_score is 100 minus the category's
\* final risk score, and all four lie in 0..100.
C4_HealthIsComplement ==
    (pc = "done" /\ IsOk(result) /\ Has(result.val, "risk_score")) =>
      /\ result.val.score = 100 - result.val.risk_score
      /\ result.val.score \in 0..100
      /\ result.val.risk_score \in 0..100
      /\ \A c \in DOMAIN CategoryScores :
            /\ CategoryScores[c].health_score = 100 - CategoryScores[c].risk_score
            /\ CategoryScores[c].health_score \in 0..100
            /\ CategoryScores[c].risk_score \in 0..100

(***************************************************************************)
(* Single classify_biomarker calls (specification SpecClassify)            *)
(***************************************************************************)

\* Every catalog key and one key without reference range.
ClassifyKeys == { BiomarkerKeys[i] : i \in DOMAIN BiomarkerKeys } \cup { "zinc" }

\* Readings around both bounds of a range lo..hi.
AroundRange(r) ==
    { r[1] - Max(1, r[1] \div 4), r[1] - 1, r[1], (r[1] + r[2]) \div 2,
      r[2], r[2] + 1, r[2] + r[2] \div 2 }

ClassifyValues(key) ==
    { -10, 0, 100 } \cup
    ( IF key \in DOMAIN BIOMARKER_RANGES
      THEN AroundRange(BIOMARKER_RANGES[key].male)
             \cup AroundRange(BIOMARKER_RANGES[key].female)
      ELSE {} )

Genders ==
    { <<"m", "a", "l", "e">>, <<"M", "a", "l", "e">>, <<"M", "A", "L", "E">>,
      <<"m", "A", "l", "E">>, <<"m">>, <<"M">>,
      <<"f">>, <<"F">>, <<"f", "e", "m", "a", "l", "e">>,
      <<"F", "e", "m", "a", "l", "e">>, <<"F", "E", "M", "A", "L", "E">>,
      <<>>, <<"o", "t", "h", "e", "r">>, <<"m", "a", "l", "e", "s">>,
      <<" ", "m", "a", "l", "e">>, <<"m", "a">> }

\* One call classify_biomarker(k, v, g) and its outcome.
ClassifyCall(k, v, g) ==
    /\ pc = "classify"
    /\ \E o \in ClassifyOutcomes(k, v, g) :
          classified' = [made |-> TRUE, key |-> k, value |-> v, gender |-> g, out |-> o]
    /\ pc' = "classified"
    /\ UNCHANGED <<gender, biomarkers, classifications, result, kb, file, reload_pc,
            reader_pc, observed, detected, triggers, analysis, served,
            groq_client, sessions, groq_messages, response>>

InitClassify ==
    /\ gender = Male
    /\ biomarkers = <<>>
    /\ classifications = Pending
    /\ result = Pending
    /\ file = FilesWithoutRules
    /\ kb = Construct(file)
    /\ classified = NoCall
    /\ pc = "classify"
    /\ reload_pc = Idle
    /\ reader_pc = Idle
    /\ observed = <<>>
    /\ detected = Pending
    /\ triggers = Pending
    /\ analysis = Pending
    /\ served = 0
    /\ groq_client = FALSE
    /\ sessions = <<>>
    /\ groq_messages = <<>>
    /\ response = Pending

NextClassify ==
    \E k \in ClassifyKeys : \E v \in ClassifyValues(k) : \E g \in Genders :
        ClassifyCall(k, v, g)

SpecClassify == InitClassify /\ [][NextClassify]_vars

CatalogCall == classified.made /\ classified.key \in DOMAIN BIOMARKER_RANGES

\* The gender string spells "male" or "m" in some mix of cases.
IsMaleSpelling(g) ==
    \/ Len(g) = 1 /\ g[1] \in {"m", "M"}
    \/ /\ Len(g) = 4
       /\ g[1] \in {"m", "M"}
       /\ g[2] \in {"a", "A"}
       /\ g[3] \in {"l", "L"}
       /\ g[4] \in {"e", "E"}

ResolvedRange ==
    IF IsMaleSpelling(classified.gender)
    THEN BIOMARKER_RANGES[classified.key].male
    ELSE BIOMARKER_RANGES[classified.key].female

\* C7: classify_biomarker returns a classification without raising, for
\* every catalog key, gender string and value, negative values and ranges
\* with lower bound 0 included.
C7_ClassifyNeverRaises ==
    CatalogCall => IsOk(classified.out)

\* C8: for every catalog key, resolved range (low, high) and value the
\* status is low exactly when value < low, high exactly when value > high
\* and normal otherwise, and deviation_percent is 0 exactly when the status
\* is normal.
C8_StatusAndDeviation ==
    CatalogCall =>
      /\ IsOk(classified.out)
      /\ classified.out.val.status = "low" <=> classified.value < ResolvedRange[1]
      /\ classified.out.val.status = "high" <=> classified.value > ResolvedRange[2]
      /\ classified.out.val.status = "normal" <=>
            ( classified.value >= ResolvedRange[1] /\ classified.value <= ResolvedRange[2] )
      /\ classified.out.val.deviation_percent = 0 <=> classified.out.val.status = "normal"

C10_GenderResolution ==
    ( CatalogCall /\ IsOk(classified.out) ) =>
      classified.out.val.normal_range = ResolvedRange

C10_Witness ==
    /\ CatalogCall
    /\ classified.key = "hemoglobin"
    /\ classified.gender = <<"M", "A", "L", "E">>
    /\ IsOk(classified.out)
    /\ classified.out.val.normal_range = BIOMARKER_RANGES["hemoglobin"].male
    /\ BIOMARKER_RANGES["hemoglobin"].male /= BIOMARKER_RANGES["hemoglobin"].female

(***************************************************************************)
(* reload() against a concurrent reader (specification SpecReload)         *)
(*                                                                         *)
(* One thread runs KnowledgeBaseService.reload(), another                  *)
(* get_interaction_context(); a step is one statement that reads or binds  *)
(* an attribute of the service.                                            *)
(***************************************************************************)

At(l) == [at |-> l]

\* lines 355-358: the four attributes are rebound to empty values in turn.
ReloadClear ==
    /\ \/ reload_pc = Idle /\ kb' = [kb EXCEPT !.biomarkers = <<>>]
                           /\ reload_pc' = At("l356")
       \/ reload_pc = At("l356") /\ kb' = [kb EXCEPT !.interaction_modifiers = <<>>]
                                 /\ reload_pc' = At("l357")
       \/ reload_pc = At("l357") /\ kb' = [kb EXCEPT !.cluster_triggers = <<>>]
                                 /\ reload_pc' = At("l358")
       \/ reload_pc = At("l358") /\ kb' = [kb EXCEPT !.priority_rules = EmptyDict]
                                 /\ reload_pc' = At("l359")
    /\ UNCHANGED <<gender, biomarkers, classifications, result, file, classified,
            pc, reader_pc, observed, detected, triggers, analysis, served,
            groq_client, sessions, groq_messages, response>>

\* line 359, _load_data(), then lines 35-41 of _load_interaction_modifiers():
\* the file is read into the local variable data, or the call returns.
ReloadRead ==
    /\ \/ reload_pc = At("l359") /\ kb' = LoadData(kb, file)
                                 /\ reload_pc' = At("l360")
       \/ reload_pc = At("l360") /\ kb' = kb
                                 /\ reload_pc' = IF ~Has(file, "rules") THEN Idle
                                                 ELSE [at |-> "l43", data |-> file.rules]
    /\ UNCHANGED <<gender, biomarkers, classifications, result, file, classified,
            pc, reader_pc, observed, detected, triggers, analysis, served,
            groq_client, sessions, groq_messages, response>>

\* lines 43-45: the three attributes are bound to the new data in turn.
ReloadBind ==
    /\ Has(reload_pc, "data")
    /\ \/ reload_pc.at = "l43"
          /\ kb' = [kb EXCEPT !.interaction_modifiers =
                                  Get(reload_pc.data, "interaction_modifiers", <<>>)]
          /\ reload_pc' = [reload_pc EXCEPT !.at = "l44"]
       \/ reload_pc.at = "l44"
          /\ kb' = [kb EXCEPT !.cluster_triggers =
                                  Get(reload_pc.data, "cluster_triggers", <<>>)]
          /\ reload_pc' = [reload_pc EXCEPT !.at = "l45"]
       \/ reload_pc.at = "l45"
          /\ kb' = [kb EXCEPT !.priority_rules =
                                  Get(reload_pc.data, "priority_rules", EmptyDict)]
          /\ reload_pc' = Idle
    /\ UNCHANGED <<gender, biomarkers, classifications, result, file, classified,
            pc, reader_pc, observed, detected, triggers, analysis, served,
            groq_client, sessions, groq_messages, response>>

\* get_interaction_context: detect_interactions reads interaction_modifiers
\* (line 81), detect_cluster_triggers reads cluster_triggers (line 130),
\* then priority_rules is read (line 234).
ReaderStep ==
    /\ \/ reader_pc = Idle /\ observed' = <<kb.interaction_modifiers>>
                           /\ reader_pc' = At("l225")
       \/ reader_pc = At("l225") /\ observed' = Append(observed, kb.cluster_triggers)
                                 /\ reader_pc' = At("l234")
       \/ reader_pc = At("l234") /\ observed' = Append(observed, kb.priority_rules)
                                 /\ reader_pc' = At("done")
    /\ UNCHANGED <<gender, biomarkers, classifications, result, kb, file,
            classified, pc, reload_pc, detected, triggers, analysis, served,
            groq_client, sessions, groq_messages, response>>

\* The analysis returns; the next one starts afresh.
ReaderReturn ==
    /\ reader_pc = At("done")
    /\ reader_pc' = Idle
    /\ observed' = <<>>
    /\ UNCHANGED <<gender, biomarkers, classifications, result, kb, file,
            classified, pc, reload_pc, detected, triggers, analysis, served,
            groq_client, sessions, groq_messages, response>>

\* The catalog file the service was constructed from, and the files that
\* may have replaced it on disk since.
OldFile ==
    Files(RulesFile(<<RuleAtherogenic>>, <<PatternLipid>>, <<"old">>))

NewFiles ==
    { Files(RulesFile(<<RuleLipidLoad, RuleThyroid>>, <<PatternAnemia>>, <<"new">>)),
      Files(RulesFile(<<RuleGlycemic>>, <<PatternAnemia, PatternLipid>>, <<"new">>)),
      [refs |-> <<"Hemoglobin">>] }

InitReload ==
    /\ gender = Male
    /\ biomarkers = <<>>
    /\ classifications = Pending
    /\ result = Pending
    /\ file \in NewFiles
    /\ kb = Construct(OldFile)
    /\ classified = NoCall
    /\ pc = "serving"
    /\ reload_pc = Idle
    /\ reader_pc = Idle
    /\ observed = <<>>
    /\ detected = Pending
    /\ triggers = Pending
    /\ analysis = Pending
    /\ served = 0
    /\ groq_client = FALSE
    /\ sessions = <<>>
    /\ groq_messages = <<>>
    /\ response = Pending

NextReload == ReloadClear \/ ReloadRead \/ ReloadBind \/ ReaderStep \/ ReaderReturn

SpecReload == InitReload /\ [][NextReload]_vars

\* C5: an analysis that runs concurrently with reload() has read either the
\* complete old catalog or the complete new one, never an emptied catalog
\* or a mix of the two.
C5_ReloadAtomic ==
    reader_pc = At("done") =>
      observed \in { Catalog(Construct(OldFile)), Catalog(Construct(file)) }

(***************************************************************************)
(* Loading a catalog with malformed entries (specification SpecLoad)       *)
(***************************************************************************)

\* A condition without status, and rules without name and score_modifier.
RuleNoStatus ==
    [ id |-> "no_status", name |-> "no_status", description |-> "no_status",
      operator |-> "AND", conditions |-> <<Cond("ldl", "high"), [biomarker |-> "hdl"]>>,
      score_modifier |-> -10, affected_cluster |-> "lipids", priority |-> 1 ]

RuleNoName ==
    [ id |-> "no_name", description |-> "no_name", operator |-> "OR",
      conditions |-> <<Cond("ldl", "high")>>,
      score_modifier |-> -10, affected_cluster |-> "lipids", priority |-> 1 ]

RuleNoModifier ==
    [ id |-> "no_modifier", name |-> "no_modifier", description |-> "no_modifier",
      operator |-> "AND", conditions |-> <<Cond("tsh", "high")>>,
      affected_cluster |-> "hormonal", priority |-> 1 ]

LoadFiles ==
    { Files(RulesFile(<<RuleThyroid, RuleLipidLoad>>, <<PatternLipid>>, <<"a">>)),
      Files(RulesFile(<<RuleLipidLoad, RuleNoStatus>>, <<PatternLipid>>, <<"a">>)),
      Files(RulesFile(<<RuleNoName>>, <<PatternLipid>>, <<"a">>)),
      Files(RulesFile(<<RuleNoModifier, RuleThyroid>>, <<>>, <<"a">>)) }

\* Keys of the input maps of these runs; every reading is classified.
LoadKeys == << "ldl", "hdl", "tsh" >>

LoadValues(key) == InputValues(key) \ { Below("ldl") }

\* BiomarkerAnalyticsEngine.__init__: self.kb = KnowledgeBaseService().
Startup ==
    /\ pc = "start"
    /\ kb' = Construct(file)
    /\ pc' = "input"
    /\ UNCHANGED <<gender, biomarkers, classifications, result, file, classified,
            reload_pc, reader_pc, observed, detected, triggers, analysis,
            served, groq_client, sessions, groq_messages, response>>

InitLoad ==
    /\ gender = Male
    /\ biomarkers = <<>>
    /\ classifications = Pending
    /\ result = Pending
    /\ file \in LoadFiles
    /\ kb = EmptyKb
    /\ classified = NoCall
    /\ pc = "start"
    /\ reload_pc = Idle
    /\ reader_pc = Idle
    /\ observed = <<>>
    /\ detected = Pending
    /\ triggers = Pending
    /\ analysis = Pending
    /\ served = 0
    /\ groq_client = FALSE
    /\ sessions = <<>>
    /\ groq_messages = <<>>
    /\ response = Pending

NextLoad ==
    \/ Startup
    \/ \E i \in DOMAIN LoadKeys : \E v \in LoadValues(LoadKeys[i]) :
          AddEntry(LoadKeys, LoadKeys[i], v)
    \/ ScoreRequest

SpecLoad == InitLoad /\ [][NextLoad]_vars

WellFormedRule(r) ==
    /\ Has(r, "name") /\ Has(r, "description") /\ Has(r, "score_modifier")
    /\ \A i \in DOMAIN Get(r, "conditions", <<>>) :
          Has(r.conditions[i], "biomarker") /\ Has(r.conditions[i], "status")

\* C6: a rule that lacks a required field is rejected when the catalog is
\* loaded: the service holds no such rule once it is constructed, and no
\* scoring call fails because of one.
C6_MalformedRejectedAtLoad ==
    /\ pc /= "start" =>
          \A i \in DOMAIN kb.interaction_modifiers :
              WellFormedRule(kb.interaction_modifiers[i])
    /\ pc = "done" => IsOk(result)

(***************************************************************************)
(* classify_all on raw form values (specification SpecBatch)               *)
(***************************************************************************)

\* Keys of the raw input maps, in insertion order.
BatchKeys == << "hdl", "ldl", "zinc" >>

\* Raw values of a form field: numbers, None, "", "abc", "45" and "-1".
RawValues(key) ==
    { Num(450), Num(1200), NoneValue, Str(<<>>), Str(<<"a", "b", "c">>),
      Str(<<"4", "5">>), Str(<<"-", "1">>) }

\* The caller puts one more raw entry into the biomarker map.
AddRawEntry(keys, k, raw) ==
    /\ pc = "input"
    /\ \A i \in DOMAIN biomarkers :
          KeyIndex(keys, biomarkers[i][1]) < KeyIndex(keys, k)
    /\ biomarkers' = Append(biomarkers, <<k, raw>>)
    /\ UNCHANGED <<gender, classifications, result, kb, file, classified, pc,
            reload_pc, reader_pc, observed, detected, triggers, analysis,
            served, groq_client, sessions, groq_messages, response>>

\* classifications = self.classify_all(biomarkers, gender)
ClassifyAllCall ==
    /\ pc = "input"
    /\ classifications' \in ClassifyAllOutcomes(biomarkers, gender)
    /\ pc' = "classified_all"
    /\ UNCHANGED <<gender, biomarkers, result, kb, file, classified, reload_pc,
            reader_pc, observed, detected, triggers, analysis, served,
            groq_client, sessions, groq_messages, response>>

InitBatch ==
    /\ gender = Male
    /\ biomarkers = <<>>
    /\ classifications = Pending
    /\ result = Pending
    /\ file = FilesWithoutRules
    /\ kb = Construct(file)
    /\ classified = NoCall
    /\ pc = "input"
    /\ reload_pc = Idle
    /\ reader_pc = Idle
    /\ observed = <<>>
    /\ detected = Pending
    /\ triggers = Pending
    /\ analysis = Pending
    /\ served = 0
    /\ groq_client = FALSE
    /\ sessions = <<>>
    /\ groq_messages = <<>>
    /\ response = Pending

NextBatch ==
    \/ \E i \in DOMAIN BatchKeys : \E raw \in RawValues(BatchKeys[i]) :
          AddRawEntry(BatchKeys, BatchKeys[i], raw)
    \/ ClassifyAllCall

SpecBatch == InitBatch /\ [][NextBatch]_vars

\* A raw value that is present, non-empty and numeric, and its number in
\* tenths.
IsNumeric(raw) ==
    \/ raw.t = "num"
    \/ /\ raw.t = "str"
       /\ raw.s /= <<>>
       /\ \A i \in DOMAIN raw.s : IsDigit(raw.s[i]) \/ (i = 1 /\ raw.s[i] = "-")
       /\ raw.s /= << "-" >>

NumericValue(raw) ==
    IF raw.t = "num" THEN raw.v
    ELSE IF raw.s[1] = "-" THEN -10 * DigitsValue(Tail(raw.s))
    ELSE 10 * DigitsValue(raw.s)

NumericEntries == SelectSeq(biomarkers, LAMBDA e : IsNumeric(e[2]))

\* C11: classify_all returns, without error, one classification per entry
\* whose value is present, non-empty and numeric, in the order of the input
\* map: the i-th result is the classification of the i-th such entry, and
\* the other entries leave no trace.
C11_OnePerNumericEntry ==
    pc = "classified_all" =>
      /\ IsOk(classifications)
      /\ Len(classifications.val) = Len(NumericEntries)
      /\ \A i \in DOMAIN classifications.val :
            Ok(classifications.val[i])
              \in ClassifyOutcomes(NumericEntries[i][1],
                                   NumericValue(NumericEntries[i][2]), gender)

(***************************************************************************)
(* detect_interactions on classified input (specification SpecDetect)      *)
(***************************************************************************)

\* Catalogs whose order differs from the order of their priorities, with
\* rules of equal priority, and the missing catalog.
DetectFiles ==
    { FilesWithoutRules,
      Files(RulesFile(<<RuleThyroid, RuleLipidLoad, RuleBalanced, RuleAtherogenic>>,
                      <<>>, <<>>)),
      Files(RulesFile(<<RuleIsolatedLdl, RuleEuthyroid, RuleAtherogenic>>, <<>>, <<>>)),
      Files(RulesFile(<<RuleLipidLoad, RuleIsolatedLdl, RuleThyroid>>, <<>>, <<>>)) }

DetectKeys == << "ldl", "hdl", "triglycerides", "tsh", "zinc" >>

\* classifications = self.classify_all(biomarkers, gender), then
\* self.kb.detect_interactions(classifications), as analyze() does through
\* get_interaction_context().
DetectRequest ==
    /\ pc = "input"
    /\ \E co \in ClassifyAllOutcomes(biomarkers, gender) :
          /\ classifications' = co
          /\ detected' = IF IsOk(co)
                         THEN DetectInteractions(kb.interaction_modifiers, co.val)
                         ELSE co
    /\ pc' = "detected"
    /\ UNCHANGED <<gender, biomarkers, result, kb, file, classified, reload_pc,
            reader_pc, observed, triggers, analysis, served, groq_client,
            sessions, groq_messages, response>>

InitDetect ==
    /\ gender = Male
    /\ biomarkers = <<>>
    /\ classifications = Pending
    /\ result = Pending
    /\ file \in DetectFiles
    /\ kb = Construct(file)
    /\ classified = NoCall
    /\ pc = "input"
    /\ reload_pc = Idle
    /\ reader_pc = Idle
    /\ observed = <<>>
    /\ detected = Pending
    /\ triggers = Pending
    /\ analysis = Pending
    /\ served = 0
    /\ groq_client = FALSE
    /\ sessions = <<>>
    /\ groq_messages = <<>>
    /\ response = Pending

NextDetect ==
    \/ \E i \in DOMAIN DetectKeys : \E v \in InputValues(DetectKeys[i]) :
          AddEntry(DetectKeys, DetectKeys[i], v)
    \/ DetectRequest

SpecDetect == InitDetect /\ [][NextDetect]_vars

\* The detector has been called on a classification set.
Detected == pc = "detected" /\ IsOk(classifications)

\* The rules of the catalog with a given combinator.
CatalogRules(op) ==
    { kb.interaction_modifiers[i] :
        i \in { j \in DOMAIN kb.interaction_modifiers :
                  kb.interaction_modifiers[j].operator = op } }

\* The status the classification set gives a key: that of its entry, and
\* normal for a key without entry.
SetStatus(key) ==
    LET cls == classifications.val
    IN  IF \E i \in DOMAIN cls : Has(cls[i], "key") /\ cls[i].key = key
        THEN cls[CHOOSE i \in DOMAIN cls : Has(cls[i], "key") /\ cls[i].key = key].status
        ELSE "normal"

Met(cond) == SetStatus(cond.biomarker) = cond.status

Included(rule) ==
    IsOk(detected) /\ \E i \in DOMAIN detected.val : detected.val[i] = rule

AllMet(rule) == \A i \in DOMAIN rule.conditions : Met(rule.conditions[i])

SomeMet(rule) == \E i \in DOMAIN rule.conditions : Met(rule.conditions[i])

\* C12 as stated: for every classification set, an AND rule is in the result
\* of detect_interactions exactly when every condition's required status is
\* the looked-up status of its key.
C12_AndRuleEverySet ==
    Detected => \A r \in CatalogRules("AND") : Included(r) <=> AllMet(r)

\* C12, amended: the same for every classification set that is not empty;
\* for the empty set the result is empty whatever the rules require.
C12_AndRule ==
    Detected =>
      /\ IsOk(detected)
      /\ classifications.val /= <<>> =>
            \A r \in CatalogRules("AND") : Included(r) <=> AllMet(r)
      /\ classifications.val = <<>> => detected.val = <<>>

\* An AND rule is met but for one condition, and is left out; another AND
\* rule of the same call is met and included.
C12_Witness ==
    /\ Detected
    /\ \E r \in CatalogRules("AND") :
          /\ ~Included(r)
          /\ \E i \in DOMAIN r.conditions :
                /\ ~Met(r.conditions[i])
                /\ \A j \in DOMAIN r.conditions \ {i} : Met(r.conditions[j])
    /\ \E r \in CatalogRules("AND") :
          Included(r) /\ AllMet(r) /\ Len(r.conditions) >= 2

\* The classification set has no entry for the key.
Absent(key) ==
    \A i \in DOMAIN classifications.val :
        ~(Has(classifications.val[i], "key") /\ classifications.val[i].key = key)

AllRules == CatalogRules("AND") \cup CatalogRules("OR")

\* Condition i of rule r counted as matched or not: an AND rule then
\* follows its other conditions or is out, an OR rule is in or follows its
\* other conditions.
CountsAs(r, i, matched) ==
    LET others == DOMAIN r.conditions \ {i}
    IN  IF r.operator = "AND"
        THEN Included(r) <=> (matched /\ \A j \in others : Met(r.conditions[j]))
        ELSE Included(r) <=> (matched \/ \E j \in others : Met(r.conditions[j]))

AbsentIsNormal ==
    \A r \in AllRules : \A i \in DOMAIN r.conditions :
        Absent(r.conditions[i].biomarker) =>
            CountsAs(r, i, r.conditions[i].status = "normal")

\* C13 as stated: for every classification set, the empty one included, a
\* key that a rule references and the set lacks has status normal: a
\* condition requiring normal on it counts as matched, one requiring
\* another status as unmatched.
C13_AbsentKeyEverySet ==
    Detected => AbsentIsNormal

\* C13, amended: the same for every classification set that is not empty;
\* on the empty set no rule is evaluated and none is returned.
C13_AbsentKey ==
    Detected =>
      /\ IsOk(detected)
      /\ classifications.val /= <<>> => AbsentIsNormal
      /\ classifications.val = <<>> => detected.val = <<>>

\* A rule is in the result of a call on a non-empty set that lacks the key
\* of one of its conditions, which requires normal, while another of its
\* conditions is on a key the set holds.
C13_Witness ==
    /\ Detected
    /\ classifications.val /= <<>>
    /\ \E r \in CatalogRules("AND") :
          /\ Included(r)
          /\ \E i \in DOMAIN r.conditions :
                /\ Absent(r.conditions[i].biomarker)
                /\ r.conditions[i].status = "normal"
          /\ \E i \in DOMAIN r.conditions : ~Absent(r.conditions[i].biomarker)

\* How often a rule occurs in the result.
Occurrences(rule) ==
    Cardinality({ i \in DOMAIN detected.val : detected.val[i] = rule })

OrRuleOnce ==
    \A r \in CatalogRules("OR") :
        Occurrences(r) = IF SomeMet(r) THEN 1 ELSE 0

\* C14 as stated: for every classification set, an OR rule is in the result
\* exactly when at least one of its conditions matches, whatever the status
\* of the others, and is there once even when several match.
C14_OrRuleEverySet ==
    Detected => IsOk(detected) /\ OrRuleOnce

\* C14, amended: the same for every classification set that is not empty;
\* for the empty set the result is empty.
C14_OrRule ==
    Detected =>
      /\ IsOk(detected)
      /\ classifications.val /= <<>> => OrRuleOnce
      /\ classifications.val = <<>> => detected.val = <<>>

\* An OR rule with two matching conditions is in the result, and another
\* one is there by its second condition alone.
C14_Witness ==
    /\ Detected
    /\ \E r \in CatalogRules("OR") :
          Included(r) /\ Len(r.conditions) >= 2 /\ AllMet(r)
    /\ \E r \in CatalogRules("OR") :
          Included(r) /\ ~Met(r.conditions[1]) /\ Met(r.conditions[2])

\* The place of a rule in the catalog.
CatalogIndex(rule) ==
    CHOOSE i \in DOMAIN kb.interaction_modifiers : kb.interaction_modifiers[i] = rule

\* C15: the list returned by detect_interactions is in ascending order of
\* priority, and rules of equal priority are in their catalog order.
C15_PriorityOrder ==
    (Detected /\ IsOk(detected)) =>
      \A i, j \in DOMAIN detected.val :
        i < j =>
          /\ detected.val[i].priority <= detected.val[j].priority
          /\ detected.val[i].priority = detected.val[j].priority =>
                CatalogIndex(detected.val[i]) < CatalogIndex(detected.val[j])

\* Three rules are returned, two of them of equal priority, and one that
\* the catalog lists before them is returned behind them.
C15_Witness ==
    /\ Detected /\ IsOk(detected)
    /\ Len(detected.val) >= 3
    /\ \E i, j \in DOMAIN detected.val :
          i < j /\ detected.val[i].priority = detected.val[j].priority
    /\ \E i, j \in DOMAIN detected.val :
          i < j /\ CatalogIndex(detected.val[i]) > CatalogIndex(detected.val[j])

(***************************************************************************)
(* Properties of the category loop and the aggregation (specification Spec)*)
(***************************************************************************)

\* The triggered rules of the result whose affected_cluster is the category.
RulesOn(cat) ==
    SelectSeq(result.val.triggered_interactions,
              LAMBDA ix : ix.affected_cluster = cat)

\* The sum of |score_modifier| over them.
PenaltyOn(cat) ==
    SumSeq([i \in DOMAIN RulesOn(cat) |->
              IF RulesOn(cat)[i].score_modifier < 0
              THEN -RulesOn(cat)[i].score_modifier
              ELSE RulesOn(cat)[i].score_modifier])

\* C16: the final risk score of each scored category is
\* min(100, base risk + P), P being the sum of |score_modifier| over the
\* triggered rules whose affected_cluster is the category, and the
\* category's interaction_modifiers list names exactly those rules.
C16_ClusterPenalty ==
    Scored =>
      \A c \in DOMAIN CategoryScores :
        /\ CategoryScores[c].risk_score
             = IF CategoryScores[c].base_risk + PenaltyOn(c) < 100
               THEN CategoryScores[c].base_risk + PenaltyOn(c)
               ELSE 100
        /\ CategoryScores[c].interaction_modifiers
             = [i \in DOMAIN RulesOn(c) |->
                  [ name     |-> RulesOn(c)[i].name,
                    modifier |-> RulesOn(c)[i].score_modifier ]]

\* Two triggered rules raise the risk of one category, short of the clamp,
\* while a rule on another category is triggered in the same call.
C16_Witness ==
    /\ Scored
    /\ \E c \in DOMAIN CategoryScores :
          /\ Len(RulesOn(c)) >= 2
          /\ CategoryScores[c].base_risk > 0
          /\ CategoryScores[c].risk_score < 100
    /\ \E c \in DOMAIN CategoryScores :
          RulesOn(c) = <<>> /\ CategoryScores[c].risk_score > 0

\* The markers of a category as its score lists them, and the abnormal
\* ones among them.
Listed(c) == CategoryScores[c].markers

ListedAbnormal(c) == SelectSeq(Listed(c), LAMBDA m : m.status /= "normal")

\* Their deviation_percent summed, in tenths of a percent.
ListedDeviation(c) ==
    SumSeq([i \in DOMAIN ListedAbnormal(c) |-> ListedAbnormal(c)[i].deviation])

\* (ratio * 60 + severity_factor * 40) * weight as a fraction <<num, den>>:
\* ratio = k / n, avg_deviation = s / (10 k) percent for k abnormal markers
\* among n, severity_factor = min(avg_deviation / 50, 1), weight = w / 100.
BaseRiskRaw(c) ==
    LET n == Len(Listed(c))
        k == Len(ListedAbnormal(c))
        s == ListedDeviation(c)
        w == RISK_CATEGORIES[c].weight
    IN  IF k = 0 THEN <<0, 1>>
        ELSE IF s >= 500 * k
             THEN <<(60 * k + 40 * n) * w, 100 * n>>
             ELSE <<(30000 * k * k + 40 * s * n) * w, 50000 * k * n>>

\* r is round(num / den): the integer nearest to it, and either neighbour
\* where the float stands for an exact half.
IsRounded(r, q) ==
    IF 2 * q[1] >= q[2] * (2 * r) THEN 2 * q[1] - q[2] * (2 * r) <= q[2]
    ELSE q[2] * (2 * r) - 2 * q[1] <= q[2]

\* C17: the base risk score of every scored category is
\* min(100, round((ratio*60 + severity_factor*40) * weight)); a category
\* whose markers are all abnormal with an average deviation of 50 or more
\* and a weight of 1.0 or more has health_score 0.
C17_BaseRisk ==
    Scored =>
      \A c \in DOMAIN CategoryScores :
        /\ \E r \in 0..200 :
              /\ IsRounded(r, BaseRiskRaw(c))
              /\ CategoryScores[c].base_risk = IF r < 100 THEN r ELSE 100
        /\ ( /\ Len(ListedAbnormal(c)) = Len(Listed(c))
             /\ ListedDeviation(c) >= 500 * Len(Listed(c))
             /\ RISK_CATEGORIES[c].weight >= 100 )
           => CategoryScores[c].health_score = 0

\* One category has all its markers abnormal at an average deviation of
\* 50 or more, another has a marker above the cap of the severity factor
\* beside a normal one and a base risk below 100.
C17_Witness ==
    /\ Scored
    /\ \E c \in DOMAIN CategoryScores :
          /\ Len(ListedAbnormal(c)) = Len(Listed(c))
          /\ ListedDeviation(c) >= 500 * Len(Listed(c))
          /\ CategoryScores[c].health_score = 0
    /\ \E c \in DOMAIN CategoryScores :
          /\ Len(ListedAbnormal(c)) < Len(Listed(c))
          /\ ListedDeviation(c) > 500 * Len(ListedAbnormal(c))
          /\ CategoryScores[c].base_risk \in 1..99

\* The scored categories of the result, each with weight * marker count.
Contribution(c) == RISK_CATEGORIES[c].weight * CategoryScores[c].total_markers

\* The markers of the classification set with deviation_percent above 30.
HighDeviation ==
    Cardinality({ i \in DOMAIN classifications.val :
                    classifications.val[i].deviation_percent > 300 })

\* overall risk as a fraction <<num, den>>:
\* min(100, sum(risk * weight * count) / sum(weight * count) + 2 * high).
OverallRisk ==
    LET cats == DOMAIN CategoryScores
        tw   == SumOver(cats, [c \in cats |-> Contribution(c)])
        twp  == SumOver(cats, [c \in cats |-> CategoryScores[c].risk_score * Contribution(c)])
        sum  == twp + 2 * HighDeviation * tw
    IN  IF sum < 100 * tw THEN <<sum, tw>> ELSE <<100 * tw, tw>>

\* C18: the overall risk is min(100, the average of the final category risk
\* scores weighted by weight * marker count, plus 2 for every marker with
\* deviation_percent above 30), and the overall health score is
\* max(0, round(100 - overall risk)), in every result with a scored category.
C18_OverallScore ==
    (Scored /\ DOMAIN CategoryScores /= {}) =>
      /\ IsRounded(result.val.score,
                   <<100 * OverallRisk[2] - OverallRisk[1], OverallRisk[2]>>)
      /\ IsRounded(result.val.risk_score, OverallRisk)
      /\ result.val.high_deviation_markers = HighDeviation

\* Two categories of different marker counts and different final risks are
\* averaged, a marker above 30 adds its penalty, and the sum stays below
\* the clamp.
C18_Witness ==
    /\ Scored
    /\ HighDeviation >= 1
    /\ OverallRisk[1] < 100 * OverallRisk[2]
    /\ \E c, d \in DOMAIN CategoryScores :
          /\ CategoryScores[c].total_markers /= CategoryScores[d].total_markers
          /\ CategoryScores[c].risk_score /= CategoryScores[d].risk_score
          /\ CategoryScores[c].risk_score > 0
          /\ CategoryScores[d].risk_score > 0

\* Every classification of a non-empty set is normal.
AllNormal ==
    /\ classifications.val /= <<>>
    /\ \A i \in DOMAIN classifications.val : classifications.val[i].status = "normal"

Perfect ==
    /\ result.val.score = 100
    /\ result.val.level = "excellent"
    /\ \A c \in DOMAIN CategoryScores : CategoryScores[c].health_score = 100
    /\ result.val.triggered_interactions = <<>>

\* A rule that normal statuses alone satisfy: an AND rule all of whose
\* conditions require normal, an OR rule one of whose conditions does.
NormalMet(rule) ==
    IF rule.operator = "AND"
    THEN \A i \in DOMAIN rule.conditions : rule.conditions[i].status = "normal"
    ELSE \E i \in DOMAIN rule.conditions : rule.conditions[i].status = "normal"

C20_EmptySet ==
    (pc = "done" /\ IsOk(classifications) /\ classifications.val = <<>>) =>
      /\ IsOk(result)
      /\ result.val.score = 0
      /\ result.val.level = "unknown"
      /\ DOMAIN result.val.category_scores = {}
      /\ result.val.triggered_interactions = <<>>

\* The empty set has been scored under a catalog with a rule that normal
\* statuses alone satisfy.
C20_Witness ==
    /\ pc = "done" /\ IsOk(classifications) /\ classifications.val = <<>>
    /\ IsOk(result)
    /\ \E r \in AllRules : NormalMet(r)

(***************************************************************************)
(* Cluster trigger patterns (specification SpecTrigger)                    *)
(***************************************************************************)

Cluster(key, patterns) ==
    [cluster |-> key, description |-> key, trigger_patterns |-> patterns]

\* A cluster item without description.
ClusterNoLabel(key, patterns) ==
    [cluster |-> key, trigger_patterns |-> patterns]

TriggerRules(items) ==
    [ interaction_modifiers |-> <<>>,
      cluster_triggers      |-> items,
      priority_rules        |-> [ordering_rules |-> <<>>] ]

TriggerFiles ==
    { FilesWithoutRules,
      Files(TriggerRules(<< Cluster("lipid", <<PatternEuthyroid, PatternLipid, PatternLdlZinc>>),
                            Cluster("anemia", <<PatternAnemia, PatternCrpAlone>>) >>)),
      Files(TriggerRules(<< ClusterNoLabel("misc", <<PatternNoWord, PatternLipid,
                                                     PatternBare, PatternEmpty>>),
                            [cluster |-> "none"] >>)),
      Files(TriggerRules(<< Cluster("lipid", <<PatternLdlZinc, PatternLipid>>),
                            Cluster("thyroid", <<PatternEuthyroid, PatternAnemia>>) >>)) }

TriggerKeys == << "hemoglobin", "ferritin", "ldl", "hdl", "tsh", "zinc" >>

TriggerValues(key) ==
    CASE key = "hemoglobin" -> { Below(key), Mid(key) }
      [] key = "ferritin"   -> { Below(key), Mid(key) }
      [] key = "ldl"        -> { Mid(key), Fifth(key) }
      [] key = "hdl"        -> { Below(key), Mid(key) }
      [] key = "tsh"        -> { Mid(key), Half(key) }
      [] OTHER              -> { 10 }

\* classifications = self.classify_all(biomarkers, gender), then
\* self.kb.detect_cluster_triggers(classifications), as analyze() does
\* through get_interaction_context().
TriggerRequest ==
    /\ pc = "input"
    /\ \E co \in ClassifyAllOutcomes(biomarkers, gender) :
          /\ classifications' = co
          /\ triggers' = IF IsOk(co)
                         THEN DetectClusterTriggers(kb.cluster_triggers, co.val)
                         ELSE co
    /\ pc' = "triggers"
    /\ UNCHANGED <<gender, biomarkers, result, kb, file, classified, reload_pc,
            reader_pc, observed, detected, analysis, served, groq_client,
            sessions, groq_messages, response>>

InitTrigger ==
    /\ gender = Male
    /\ biomarkers = <<>>
    /\ classifications = Pending
    /\ result = Pending
    /\ file \in TriggerFiles
    /\ kb = Construct(file)
    /\ classified = NoCall
    /\ pc = "input"
    /\ reload_pc = Idle
    /\ reader_pc = Idle
    /\ observed = <<>>
    /\ detected = Pending
    /\ triggers = Pending
    /\ analysis = Pending
    /\ served = 0
    /\ groq_client = FALSE
    /\ sessions = <<>>
    /\ groq_messages = <<>>
    /\ response = Pending

NextTrigger ==
    \/ \E i \in DOMAIN TriggerKeys : \E v \in TriggerValues(TriggerKeys[i]) :
          AddEntry(TriggerKeys, TriggerKeys[i], v)
    \/ TriggerRequest

SpecTrigger == InitTrigger /\ [][NextTrigger]_vars

\* The pattern matcher has been called on a classification set.
Matched == pc = "triggers" /\ IsOk(classifications) /\ IsOk(triggers)

\* The patterns of the catalog, over all its clusters.
CatalogPatterns ==
    UNION { { Get(kb.cluster_triggers[i], "trigger_patterns", <<>>)[j] :
                j \in DOMAIN Get(kb.cluster_triggers[i], "trigger_patterns", <<>>) } :
            i \in DOMAIN kb.cluster_triggers }

\* The clause list a catalog pattern was written from.
ClauseTable ==
    << << PatternAnemia, ClausesAnemia >>, << PatternLipid, ClausesLipid >>,
       << PatternEuthyroid, ClausesEuthyroid >>, << PatternLdlZinc, ClausesLdlZinc >>,
       << PatternCrpAlone, ClausesCrpAlone >>, << PatternNoWord, ClausesNoWord >>,
       << PatternEmpty, <<>> >>, << PatternBare, <<>> >> >>

ClausesOf(tp) ==
    ClauseTable[CHOOSE i \in DOMAIN ClauseTable : ClauseTable[i][1] = tp][2]

\* The status a clause requires, by its word (case-insensitive).
StatusWords ==
    ( << "l", "o", "w" >>                :> "low" ) @@
    ( << "h", "i", "g", "h" >>           :> "high" ) @@
    ( << "n", "o", "r", "m", "a", "l" >> :> "normal" )

\* A clause is checkable when it has a status word and its marker name is
\* an alias of the table.
Checkable(c) ==
    Lower(c.word) \in DOMAIN StatusWords /\ Lower(c.name) \in DOMAIN name_to_key

ClauseMet(c) ==
    SetStatus(name_to_key[Lower(c.name)]) = StatusWords[Lower(c.word)]

\* Every checkable clause of the pattern has its required status.
PatternMet(tp) ==
    \A i \in DOMAIN ClausesOf(tp) :
        Checkable(ClausesOf(tp)[i]) => ClauseMet(ClausesOf(tp)[i])

Reported(tp) ==
    \E i \in DOMAIN triggers.val :
        /\ triggers.val[i].pattern = Get(tp, "pattern", <<>>)
        /\ triggers.val[i].diagnosis = tp.diagnosis

\* C21 as stated: for every classification set, a pattern is reported by
\* detect_cluster_triggers exactly when every clause whose alias resolves
\* has its required status in the set (normal for an absent key).
C21_PatternEverySet ==
    Matched => \A tp \in CatalogPatterns : Reported(tp) <=> PatternMet(tp)

\* C21, amended: the same for every classification set that is not empty;
\* for the empty set nothing is reported whatever the patterns require.
C21_Pattern ==
    Matched =>
      /\ classifications.val /= <<>> =>
            \A tp \in CatalogPatterns : Reported(tp) <=> PatternMet(tp)
      /\ classifications.val = <<>> => triggers.val = <<>>

\* One pattern is reported although one of its clauses names an alias that
\* does not resolve, and another pattern of the call fails on a clause.
C21_Witness ==
    /\ Matched
    /\ classifications.val /= <<>>
    /\ PatternLdlZinc \in CatalogPatterns /\ Reported(PatternLdlZinc)
    /\ PatternLipid \in CatalogPatterns /\ ~Reported(PatternLipid)
    /\ SetStatus("ldl") = "high"

(***************************************************************************)
(* Labels and levels of the score result (specification Spec)              *)
(***************************************************************************)

\* C22: the status label of every category of the result is decided by its
\* health_score alone: Healthy from 90, Mild Concern from 70 to 89, Needs
\* Attention from 40 to 69, High Risk below 40.
C22_StatusLabel ==
    Scored =>
      \A c \in DOMAIN CategoryScores :
        LET h == CategoryScores[c].health_score
            l == CategoryScores[c].status_label
        IN  /\ l = "Healthy"         <=> h >= 90
            /\ l = "Mild Concern"    <=> (h >= 70 /\ h < 90)
            /\ l = "Needs Attention" <=> (h >= 40 /\ h < 70)
            /\ l = "High Risk"       <=> h < 40

\* One category sits on the threshold 90 and is Healthy, another of the
\* same result lies below 40 and is High Risk.
C22_Witness ==
    /\ Scored
    /\ \E c, d \in DOMAIN CategoryScores :
          /\ CategoryScores[c].health_score = 90
          /\ CategoryScores[c].status_label = "Healthy"
          /\ CategoryScores[d].health_score < 40
          /\ CategoryScores[d].status_label = "High Risk"

\* C23: for a classification set that is not empty the level of the result
\* is decided by the overall health score alone (excellent from 85, good
\* from 70, moderate from 50, needs_attention from 30, high_risk below),
\* and the level unknown is that of the empty set only.
C23_Level ==
    Scored =>
      LET h == result.val.score
          l == result.val.level
      IN  /\ classifications.val /= <<>> =>
                /\ l = "excellent"       <=> h >= 85
                /\ l = "good"            <=> (h >= 70 /\ h < 85)
                /\ l = "moderate"        <=> (h >= 50 /\ h < 70)
                /\ l = "needs_attention" <=> (h >= 30 /\ h < 50)
                /\ l = "high_risk"       <=> h < 30
          /\ l = "unknown" => classifications.val = <<>>

\* A set that is not empty scores exactly 85 and is excellent.
C23_Witness ==
    /\ Scored
    /\ classifications.val /= <<>>
    /\ result.val.score = 85
    /\ result.val.level = "excellent"

(***************************************************************************)
(* The analyze pipeline on one engine (specification SpecAnalyze)          *)
(***************************************************************************)

MaxRequests == 2

\* Catalogs of an engine: no rule file, a rule list that is not in priority
\* order, and rules that normal statuses satisfy.
AnalyzeFiles ==
    { FilesWithoutRules,
      Files(RulesFile(<<RuleThyroid, RuleLipidLoad, RuleAtherogenic>>,
                      <<PatternLipid, PatternEuthyroid>>, <<"a">>)),
      Files(RulesFile(<<RuleEuthyroid, RuleBalanced>>, <<PatternCrpAlone>>, <<>>)) }

AnalyzeKeys == << "ldl", "hdl", "tsh" >>

\* Raw values of a form field: a normal and an abnormal number, None, ""
\* and "abc".
AnalyzeValues(key) ==
    { Num(Mid(key)), Num(IF key = "hdl" THEN Below(key) ELSE Half(key)),
      NoneValue, Str(<<>>), Str(<<"a", "b", "c">>) }

\* result = engine.analyze(profile_dict, biomarkers_dict): an exception of
\* a step is the outcome of analyze.
AnalyzeCall ==
    /\ pc = "input"
    /\ \E co \in ClassifyAllOutcomes(biomarkers, gender) :
          /\ classifications' = co
          /\ IF ~IsOk(co)
             THEN result' = co /\ analysis' = co /\ kb' = kb
             ELSE /\ result' \in RiskScoreOutcomes(co.val, kb.interaction_modifiers)
                  /\ IF ~IsOk(result')
                     THEN analysis' = result'
                     ELSE analysis' \in AnalyzeTail(kb, co.val, result'.val)
                  /\ kb' = KbAfterAnalysis(kb, co.val)
    /\ served' = served + 1
    /\ pc' = "analyzed"
    /\ UNCHANGED <<gender, biomarkers, file, classified, reload_pc, reader_pc,
            observed, detected, triggers, groq_client, sessions,
            groq_messages, response>>

\* The response has been sent; the engine takes the next request.
NextRequest ==
    /\ pc = "analyzed"
    /\ served < MaxRequests
    /\ biomarkers' = <<>>
    /\ classifications' = Pending
    /\ result' = Pending
    /\ analysis' = Pending
    /\ pc' = "input"
    /\ UNCHANGED <<gender, kb, file, classified, reload_pc, reader_pc, observed,
            detected, triggers, served, groq_client, sessions, groq_messages,
            response>>

InitAnalyze ==
    /\ gender = Male
    /\ biomarkers = <<>>
    /\ classifications = Pending
    /\ result = Pending
    /\ file \in AnalyzeFiles
    /\ kb = Construct(file)
    /\ classified = NoCall
    /\ pc = "input"
    /\ reload_pc = Idle
    /\ reader_pc = Idle
    /\ observed = <<>>
    /\ detected = Pending
    /\ triggers = Pending
    /\ analysis = Pending
    /\ served = 0
    /\ groq_client = FALSE
    /\ sessions = <<>>
    /\ groq_messages = <<>>
    /\ response = Pending

NextAnalyze ==
    \/ \E i \in DOMAIN AnalyzeKeys : \E raw \in AnalyzeValues(AnalyzeKeys[i]) :
          AddRawEntry(AnalyzeKeys, AnalyzeKeys[i], raw)
    \/ AnalyzeCall
    \/ NextRequest

SpecAnalyze == InitAnalyze /\ [][NextAnalyze]_vars

C26_DegenerateInput ==
    (pc = "analyzed" /\ NumericEntries = <<>>) =>
      /\ IsOk(analysis)
      /\ analysis.val.risk_score.score = 0
      /\ analysis.val.risk_score.level = "unknown"

(***************************************************************************)
(* The triggered rules in the score result (specification Spec)            *)
(***************************************************************************)

\* C25: the triggered_interactions list of the score result is in ascending
\* order of the priority values the result reports for its entries, for
\* every catalog, rules without priority field included.
C25_ReportedPriorityOrder ==
    Scored =>
      \A i, j \in DOMAIN result.val.triggered_interactions :
        i < j => result.val.triggered_interactions[i].priority
                   <= result.val.triggered_interactions[j].priority

\* Some classification of the set has category c.
HasCategory(c) ==
    \E i \in DOMAIN classifications.val :
        Get(classifications.val[i], "category", "") = c

\* The input map holds keys of BIOMARKER_RANGES only.
OnlyCatalogKeys ==
    \A i \in DOMAIN biomarkers : biomarkers[i][1] \in DOMAIN BIOMARKER_RANGES

\* The sum over the categories of the result of one of their counts.
CategorySum(field) ==
    SumOver(DOMAIN CategoryScores, [c \in DOMAIN CategoryScores |-> CategoryScores[c][field]])

\* C27: the category map of the result has an entry for a risk category
\* exactly when some classification has that category; for an input of
\* catalog keys only, the total_markers of the categories sum to the
\* total_markers of the result, and so do the abnormal_markers.
C27_CategoryCounts ==
    Scored =>
      /\ \A c \in CatSet : c \in DOMAIN CategoryScores <=> HasCategory(c)
      /\ OnlyCatalogKeys =>
            /\ Has(result.val, "total_markers")
            /\ Has(result.val, "abnormal_markers")
            /\ CategorySum("total_markers") = result.val.total_markers
            /\ CategorySum("abnormal_markers") = result.val.abnormal_markers

\* The rules of the catalog.
ScoreRules ==
    { kb.interaction_modifiers[i] : i \in DOMAIN kb.interaction_modifiers }

\* The rule's conditions hold of a classification set that is not empty.
RuleMet(r) ==
    /\ classifications.val /= <<>>
    /\ IF r.operator = "AND" THEN AllMet(r) ELSE SomeMet(r)

\* The rule's cluster has no entry in the category map: it is no risk
\* category, or no marker of that category is present.
Unplaced(r) == Get(r, "affected_cluster", "") \notin DOMAIN CategoryScores

ListedInResult(r) ==
    \E i \in DOMAIN result.val.triggered_interactions :
        result.val.triggered_interactions[i].id = r.id

CatalogWithout(r) == SelectSeq(kb.interaction_modifiers, LAMBDA x : x /= r)

\* The outcome o has the overall score and the category health scores of
\* the result.
SameScores(o) ==
    /\ IsOk(o)
    /\ o.val.score = result.val.score
    /\ DOMAIN o.val.category_scores = DOMAIN CategoryScores
    /\ \A c \in DOMAIN CategoryScores :
          o.val.category_scores[c].health_score = CategoryScores[c].health_score

\* C28: a triggered rule whose affected_cluster is not a scored category is
\* listed in triggered_interactions, and the category health scores and
\* the overall score are those the same classifications get from the
\* catalog without that rule.
C28_UnplacedRuleNoEffect ==
    Scored =>
      \A r \in ScoreRules :
        (RuleMet(r) /\ Unplaced(r)) =>
          /\ ListedInResult(r)
          /\ \E o \in RiskScoreOutcomes(classifications.val, CatalogWithout(r)) :
                SameScores(o)

\* A rule on a category without marker is met and listed, and the result
\* has a category of positive health score and a positive overall score.
C28_Witness ==
    /\ Scored
    /\ RuleGlycemic \in ScoreRules /\ RuleMet(RuleGlycemic) /\ ListedInResult(RuleGlycemic)
    /\ "lipids" \notin DOMAIN CategoryScores
    /\ \E c \in DOMAIN CategoryScores : CategoryScores[c].health_score > 0
    /\ result.val.score > 0

(***************************************************************************)
(* Patterns without checkable clause (specification SpecTrigger)           *)
(***************************************************************************)

\* No clause of the pattern has both a status word and an alias of the
\* table; the empty pattern has no clause at all.
NoCheckableClause(tp) ==
    \A i \in DOMAIN ClausesOf(tp) : ~Checkable(ClausesOf(tp)[i])

\* C29: for every classification set that is not empty,
\* detect_cluster_triggers reports every catalog pattern without checkable
\* clause, whatever the statuses of the markers are.
C29_UncheckablePatternMatches ==
    (Matched /\ classifications.val /= <<>>) =>
      \A tp \in CatalogPatterns : NoCheckableClause(tp) => Reported(tp)

\* The pattern of unknown words, the empty pattern and the entry without
\* pattern are all reported for a set with an abnormal marker, for which a
\* checkable pattern of the same cluster is not.
C29_Witness ==
    /\ Matched
    /\ \E i \in DOMAIN classifications.val : classifications.val[i].status = "low"
    /\ { PatternNoWord, PatternEmpty, PatternBare, PatternLipid } \subseteq CatalogPatterns
    /\ Reported(PatternNoWord) /\ Reported(PatternEmpty) /\ Reported(PatternBare)
    /\ ~Reported(PatternLipid)

(***************************************************************************)
(* Guardrail functions called by ChatEngine.chat (app/guardrails.py)       *)
(*                                                                         *)
(* A text is a sequence of tokens: a word, a phrase, a markup tag, or an   *)
(* identifier such as a social security number.  Lengths count tokens, and *)
(* no text of the checks is as long as a limit of the code.                *)
(***************************************************************************)

\* s[:n]
Take(s, n) == SubSeq(s, 1, Min(n, Len(s)))

\* s[-n:]
TakeLast(s, n) == SubSeq(s, Max(1, Len(s) - n + 1), Len(s))

Ssn == "123-45-6789"

Email == "test@test.com"

PiiTokens == { Ssn, Email }

RedactionMark == "[REDACTED]"

Markup == { "<script>", "</script>" }

Blocked == { "ignore all previous instructions", "I want to kill myself" }

\* redact_pii(text)[0]: every identifier is replaced by a mark.  The second
\* component, the findings, is only logged by chat().
RedactPii(text) ==
    [ i \in DOMAIN text |-> IF text[i] \in PiiTokens THEN RedactionMark ELSE text[i] ]

\* sanitize_input(text): markup is stripped, the rest is cut at 5000.
SanitizeInput(text) ==
    Take(SelectSeq(text, LAMBDA t : t \notin Markup), 5000)

\* sanitize_file_text(text): the same cleaning for extracted file text; the
\* result still goes through redact_pii inside the enriched message.
SanitizeFileText(text) ==
    SelectSeq(text, LAMBDA t : t \notin Markup)

\* None, and the empty string: both false in a condition.
NoText == <<>>

InterventionText == << "I can only help with health questions." >>

\* run_input_guardrails(message, session_id): the cleaned message, and the
\* canned answer of an emergency, adversarial or off-topic message or None.
RunInputGuardrails(message) ==
    LET clean == SanitizeInput(message)
    IN  [ clean_message |-> clean,
          intervention  |-> IF \E i \in DOMAIN clean : clean[i] \in Blocked
                            THEN InterventionText
                            ELSE NoText ]

\* run_output_guardrails(assistant_message)
RunOutputGuardrails(text) == text

(***************************************************************************)
(* ChatSession and ChatEngine.chat                                         *)
(***************************************************************************)

\* ChatSession.__init__, without session_id and created_at
NewSession ==
    [ messages |-> <<>>, file_context |-> NoText, guardrail_interventions |-> 0 ]

\* ChatSession.add_message and get_groq_messages: role and content
Message(role, content) == [ role |-> role, content |-> content ]

AddMessage(session, role, content) ==
    [ session EXCEPT !.messages = Append(@, Message(role, content)) ]

\* ChatEngine.get_or_create_session
GetOrCreateSession(ss, session_id) ==
    IF session_id \in DOMAIN ss
    THEN ss
    ELSE [ x \in DOMAIN ss \cup { session_id } |->
             IF x = session_id THEN NewSession ELSE ss[x] ]

SYSTEM_PROMPT == << "You are HealthAI" >>

SafetyReminder == << "SAFETY REMINDER" >>

FileReminder == "The user previously uploaded a file with this content"

RepeatedWarning == "Multiple safety interventions detected in this session."

Unavailable == << "Chat is unavailable" >>

ErrorMessage == << "I encountered an error processing your request" >>

\* context_note of an uploaded file
ContextNote(file_text) ==
    << "[The user has uploaded a file. Here is the extracted content:" >>
      \o Take(file_text, 4000) \o << "--- End of file content ---]" >>

\* The guardrail answered: both messages are stored, no model is called.
Intervened(session, user_message, intervention) ==
    AddMessage(
      AddMessage([ session EXCEPT !.guardrail_interventions = @ + 1 ],
                 "user", user_message),
      "assistant", intervention)

InterventionResponse(session_id, session, intervention) ==
    [ session_id          |-> session_id,
      response            |-> IF session.guardrail_interventions >= 5
                              THEN Append(intervention, RepeatedWarning)
                              ELSE intervention,
      error               |-> FALSE,
      sources_used        |-> FALSE,
      guardrail_triggered |-> TRUE ]

\* The session once the file context and the user's message are stored:
\* the file text as sanitized, the message as the user sent it.
Stored(session, user_message, file_text) ==
    AddMessage(
      IF file_text /= NoText
      THEN [ session EXCEPT !.file_context = SanitizeFileText(file_text) ]
      ELSE session,
      "user", user_message)

\* full_message: the redacted enriched message, then the reference context
FullMessage(clean_message, file_text, external_context) ==
    LET enriched_message ==
          IF file_text /= NoText
          THEN clean_message \o ContextNote(SanitizeFileText(file_text))
          ELSE clean_message
    IN  RedactPii(enriched_message) \o external_context

\* history[:-1] of the last ten stored messages: the message just stored is
\* left out.
History(session) ==
    LET history == IF Len(session.messages) > 10
                   THEN TakeLast(session.messages, 10)
                   ELSE session.messages
    IN  SubSeq(history, 1, Len(history) - 1)

FileContextMessages(session) ==
    IF session.file_context /= NoText
    THEN << Message("system",
                    << FileReminder >> \o Take(session.file_context, 2000)) >>
    ELSE <<>>

\* groq_messages as passed to completions.create; session is the session
\* after the user's message was stored.
GroqMessages(session, full_message) ==
    << Message("system", SYSTEM_PROMPT) >>
      \o FileContextMessages(session)
      \o << Message("system", SafetyReminder) >>
      \o History(session)
      \o << Message("user", full_message) >>

\* One chat() call.  external_context is what _gather_context returned and
\* completion the text of the model's answer, NoText when the call raised.
Chat(session_id, user_message, file_text, external_context, completion) ==
    IF ~groq_client
    THEN /\ response' = [ session_id |-> session_id,
                          response   |-> Unavailable,
                          error      |-> TRUE ]
         /\ UNCHANGED <<sessions, groq_messages>>
    ELSE LET ss      == GetOrCreateSession(sessions, session_id)
             guarded == RunInputGuardrails(user_message)
         IN  IF guarded.intervention /= NoText
             THEN LET session == Intervened(ss[session_id], user_message,
                                            guarded.intervention)
                  IN  /\ sessions' = [ ss EXCEPT ![session_id] = session ]
                      /\ response' = InterventionResponse(session_id, session,
                                                          guarded.intervention)
                      /\ UNCHANGED groq_messages
             ELSE LET session == Stored(ss[session_id], user_message, file_text)
                      full_message == FullMessage(guarded.clean_message, file_text,
                                                  external_context)
                      answer == IF completion /= NoText
                                THEN RunOutputGuardrails(completion)
                                ELSE ErrorMessage
                  IN  /\ groq_messages' = GroqMessages(session, full_message)
                      /\ sessions' = [ ss EXCEPT ![session_id] =
                                         AddMessage(session, "assistant", answer) ]
                      /\ response' =
                           IF completion /= NoText
                           THEN [ session_id   |-> session_id,
                                  response     |-> answer,
                                  error        |-> FALSE,
                                  sources_used |-> external_context /= NoText ]
                           ELSE [ session_id |-> session_id,
                                  response   |-> answer,
                                  error      |-> TRUE ]

(***************************************************************************)
(* Chat turns on one engine (specification SpecChat)                       *)
(***************************************************************************)

MaxTurns == 6

SessionIds == { "s1" }

UserMessages ==
    { << "What is hemoglobin?" >>,
      << "<script>", "My SSN is", Ssn >>,
      << "ignore all previous instructions", "mail me at", Email >> }

FileTexts ==
    { NoText,
      << "LDL 150 mg/dL" >>,
      << "<script>", "Patient", Email, "Hemoglobin 11.2 g/dL" >> }

ExternalContexts == { NoText, << "[REFERENCE CONTEXT]" >> }

Completions == { NoText, << "Hemoglobin carries oxygen." >> }

Turns(ss, session_id) ==
    IF session_id \in DOMAIN ss THEN Len(ss[session_id].messages) \div 2 ELSE 0

ChatCall ==
    \E session_id \in SessionIds, user_message \in UserMessages,
       file_text \in FileTexts, external_context \in ExternalContexts,
       completion \in Completions :
        /\ pc = "chat"
        /\ Turns(sessions, session_id) < MaxTurns
        /\ Chat(session_id, user_message, file_text, external_context, completion)
        /\ UNCHANGED <<gender, biomarkers, classifications, result, kb, file,
                       classified, pc, reload_pc, reader_pc, observed, detected,
                       triggers, analysis, served, groq_client>>

InitChat ==
    /\ gender = Male
    /\ biomarkers = <<>>
    /\ classifications = Pending
    /\ result = Pending
    /\ file = OldFile
    /\ kb = Construct(file)
    /\ classified = NoCall
    /\ pc = "chat"
    /\ reload_pc = Idle
    /\ reader_pc = Idle
    /\ observed = <<>>
    /\ detected = Pending
    /\ triggers = Pending
    /\ analysis = Pending
    /\ served = 0
    /\ groq_client \in BOOLEAN
    /\ sessions = <<>>
    /\ groq_messages = <<>>
    /\ response = Pending

NextChat == ChatCall

SpecChat == InitChat /\ [][NextChat]_vars

\* The messages of a call that come from the user: the user turns, and the
\* system message that carries the stored file context.
UserOriginated(m) ==
    \/ m.role = "user"
    \/ m.role = "system" /\ m.content[1] = FileReminder

\* A text that has passed through redaction is left as it is by redaction.
PassedRedaction(text) == RedactPii(text) = text

\* C30: after any sequence of chat calls on a session, every user-originated
\* message among those sent to the language model has passed through PII
\* redaction: the current message, the earlier user messages replayed from
\* the session history, and the stored file context.
C30_SentContentRedacted ==
    \A i \in DOMAIN groq_messages :
        UserOriginated(groq_messages[i]) => PassedRedaction(groq_messages[i].content)

====
